---- MODULE Spec2Model ----
(***************************************************************************)
(* Forecaster web client: the prediction submission handler, the service   *)
(* wrappers and the MarketAnalytics indicator calculator.                  *)
(*                                                                         *)
(* Units.  Money is an integer number of cents.  A confidence is an        *)
(* integer number of 1/400 (ConfUnit = 1.0).  A Math.random() result is a  *)
(* draw k in 0..RandDen-1 standing for k / RandDen, so 1.0 is never drawn. *)
(* Indicator values are integers in 1/100 of the series' unit.             *)
(***************************************************************************)
EXTENDS Integers, Sequences, FiniteSets, TLC

VARIABLES predictionData, isPredictionLoading, analysisStatus, inflight,
          overlapped, consensusFetch,
          calls, callCount,
          selectedFeed, technicalIndicators, marketMetrics, loads,
          dataFeedDisplay, timers, fetches, effect, displayEvents,
          model1, model2, errorMessage, timeouts, now,
          consensusAnalytics, parsed

vars == <<predictionData, isPredictionLoading, analysisStatus, inflight,
          overlapped, consensusFetch, calls, callCount,
          selectedFeed, technicalIndicators, marketMetrics, loads,
          dataFeedDisplay, timers, fetches, effect, displayEvents,
          model1, model2, errorMessage, timeouts, now,
          consensusAnalytics, parsed>>

submitVars == <<predictionData, isPredictionLoading, analysisStatus, inflight,
                overlapped>>
serviceVars == <<calls, callCount>>
marketVars == <<selectedFeed, technicalIndicators, marketMetrics, loads>>
displayVars == <<dataFeedDisplay, timers, fetches, effect, displayEvents>>
comparisonVars == <<model1, model2, errorMessage, timeouts, now>>
analyticsVars == <<consensusAnalytics>>
parserVars == <<parsed>>

----------------------------------------------------------------------------
(* Arithmetic helpers *)

Min(a, b) == IF a < b THEN a ELSE b
Max(a, b) == IF a > b THEN a ELSE b
Abs(a) == IF a < 0 THEN -a ELSE a

\* Math.round(n / d) for n >= 0, d > 0: halves round up.
RoundDiv(n, d) == (2 * n + d) \div (2 * d)

\* Math.sqrt on a non-negative integer, truncated to an integer.
RECURSIVE ISqrtBetween(_, _, _)
ISqrtBetween(x, lo, hi) ==
  IF lo >= hi THEN lo
  ELSE LET mid == (lo + hi + 1) \div 2
       IN  IF mid * mid <= x THEN ISqrtBetween(x, mid, hi) ELSE ISqrtBetween(x, lo, mid - 1)
ISqrt(x) == ISqrtBetween(x, 0, Min(x, 46340))

RECURSIVE SumSeq(_)
SumSeq(s) == IF s = <<>> THEN 0 ELSE Head(s) + SumSeq(Tail(s))

\* Array.prototype.slice(-k): the last k elements, or all when there are fewer.
LastN(s, k) == SubSeq(s, Max(1, Len(s) - k + 1), Len(s))

----------------------------------------------------------------------------
(* Math.random() *)

RandDen == 20

\* The draws of one run of a handler: draw number i is s[((i - 1) % 3) + 1].
RandomStreams ==
  { <<0, 0, 0>>, <<10, 10, 10>>, <<RandDen - 1, RandDen - 1, RandDen - 1>>,
    <<0, RandDen - 1, RandDen - 1>>, <<RandDen - 1, 0, 10>> }

Draw(s, i) == s[((i - 1) % 3) + 1]

----------------------------------------------------------------------------
(* Text: the only string operations the handlers use, as tables over the    *)
(* asset names the model submits.                                           *)

AssetNames == {"Bitcoin", "Ethereum", "Solana", "Litecoin", "XRP"}

\* String.prototype.toLowerCase, for the names of symbolMap and the feed
\* names made of them.
toLowerCase(a) ==
  CASE a = "Bitcoin" -> "bitcoin"
    [] a = "Ethereum" -> "ethereum"
    [] a = "Solana" -> "solana"
    [] a = "Cardano" -> "cardano"
    [] a = "BNB" -> "bnb"
    [] a = "XRP" -> "xrp"
    [] a = "Dogecoin" -> "dogecoin"
    [] a = "Polkadot" -> "polkadot"
    [] a = "Avalanche" -> "avalanche"
    [] a = "Litecoin" -> "litecoin"
    [] a = "Chainlink" -> "chainlink"
    [] a = "Polygon" -> "polygon"
    [] a = "Uniswap" -> "uniswap"
    [] a = "Stellar" -> "stellar"
    [] a = "Cosmos" -> "cosmos"
    [] a = "NEAR Protocol" -> "near protocol"
    [] a = "Algorand" -> "algorand"
    [] a = "TRON" -> "tron"
    [] a = "NASDAQ" -> "nasdaq"
    [] a = "S&P 500" -> "s&p 500"
    [] a = "Dow Jones" -> "dow jones"
    [] a = "Gold" -> "gold"
    [] a = "Silver" -> "silver"
    [] a = "Crude Oil" -> "crude oil"
    [] a = "Natural Gas" -> "natural gas"
    [] a = "Tesla" -> "tesla"
    [] a = "Apple" -> "apple"
    [] a = "Microsoft" -> "microsoft"
    [] a = "Amazon" -> "amazon"
    [] a = "Google" -> "google"
    [] a = "Meta" -> "meta"
    [] a = "Bnb" -> "bnb"
    [] a = "Xrp" -> "xrp"
    [] a = "Near protocol" -> "near protocol"
    [] a = "Tron" -> "tron"
    [] a = "Nasdaq" -> "nasdaq"
    [] a = "S&p 500" -> "s&p 500"
    [] a = "Dow jones" -> "dow jones"
    [] a = "Crude oil" -> "crude oil"
    [] a = "Natural gas" -> "natural gas"
    [] OTHER -> a

\* asset.charAt(0).toUpperCase() + asset.slice(1).toLowerCase()
Capitalize(a) ==
  CASE a = "BNB" -> "Bnb"
    [] a = "XRP" -> "Xrp"
    [] a = "NEAR Protocol" -> "Near protocol"
    [] a = "TRON" -> "Tron"
    [] a = "NASDAQ" -> "Nasdaq"
    [] a = "S&P 500" -> "S&p 500"
    [] a = "Dow Jones" -> "Dow jones"
    [] a = "Crude Oil" -> "Crude oil"
    [] a = "Natural Gas" -> "Natural gas"
    [] OTHER -> a

\* getBasePrice: the mock price of a token, in cents ($100 when unknown).
getBasePrice(token) ==
  LET t == toLowerCase(token) IN
  CASE t = "bitcoin" -> 6250000 [] t = "ethereum" -> 330000
    [] t = "solana" -> 18000 [] t = "litecoin" -> 8700
    [] t = "xrp" -> 65 [] t = "cardano" -> 55
    [] t = "bnb" -> 61000 [] t = "dogecoin" -> 16
    [] t = "polkadot" -> 790 [] t = "avalanche" -> 3600
    [] OTHER -> 10000

\* The catch branch of getTokenPrice: estimatedPrices[symbol] || 100.
EstimatedPrice(token) ==
  LET t == toLowerCase(token) IN
  CASE t = "bitcoin" -> 6250000 [] t = "ethereum" -> 330000
    [] t = "solana" -> 18000 [] t = "litecoin" -> 8700
    [] t = "xrp" -> 65 [] t = "cardano" -> 55
    [] t = "bnb" -> 61000 [] t = "dogecoin" -> 16
    [] t = "polkadot" -> 790 [] t = "avalanche" -> 3600
    [] OTHER -> 10000

----------------------------------------------------------------------------
(* The query interpreter: extractAssetsFromQuery and mapSymbolToName.  A    *)
(* query is the sequence of its characters.                                 *)

commonAssets ==
  << "bitcoin", "btc", "ethereum", "eth", "solana", "sol", "cardano",
     "ada", "binance coin", "bnb", "ripple", "xrp", "dogecoin", "doge",
     "polkadot", "dot", "avalanche", "avax", "litecoin", "ltc",
     "chainlink", "link", "polygon", "matic", "uniswap", "uni", "stellar",
     "xlm", "cosmos", "atom", "near protocol", "near", "algorand", "algo",
     "tron", "trx", "s&p 500", "nasdaq", "dow jones", "dji", "gold",
     "silver", "crude oil", "natural gas", "tesla", "apple", "microsoft",
     "amazon", "google", "meta" >>

\* The characters of each entry of commonAssets.
Chars(asset) ==
  CASE asset = "bitcoin" -> <<"b", "i", "t", "c", "o", "i", "n">>
    [] asset = "btc" -> <<"b", "t", "c">>
    [] asset = "ethereum" -> <<"e", "t", "h", "e", "r", "e", "u", "m">>
    [] asset = "eth" -> <<"e", "t", "h">>
    [] asset = "solana" -> <<"s", "o", "l", "a", "n", "a">>
    [] asset = "sol" -> <<"s", "o", "l">>
    [] asset = "cardano" -> <<"c", "a", "r", "d", "a", "n", "o">>
    [] asset = "ada" -> <<"a", "d", "a">>
    [] asset = "binance coin" -> <<"b", "i", "n", "a", "n", "c", "e", " ", "c", "o", "i", "n">>
    [] asset = "bnb" -> <<"b", "n", "b">>
    [] asset = "ripple" -> <<"r", "i", "p", "p", "l", "e">>
    [] asset = "xrp" -> <<"x", "r", "p">>
    [] asset = "dogecoin" -> <<"d", "o", "g", "e", "c", "o", "i", "n">>
    [] asset = "doge" -> <<"d", "o", "g", "e">>
    [] asset = "polkadot" -> <<"p", "o", "l", "k", "a", "d", "o", "t">>
    [] asset = "dot" -> <<"d", "o", "t">>
    [] asset = "avalanche" -> <<"a", "v", "a", "l", "a", "n", "c", "h", "e">>
    [] asset = "avax" -> <<"a", "v", "a", "x">>
    [] asset = "litecoin" -> <<"l", "i", "t", "e", "c", "o", "i", "n">>
    [] asset = "ltc" -> <<"l", "t", "c">>
    [] asset = "chainlink" -> <<"c", "h", "a", "i", "n", "l", "i", "n", "k">>
    [] asset = "link" -> <<"l", "i", "n", "k">>
    [] asset = "polygon" -> <<"p", "o", "l", "y", "g", "o", "n">>
    [] asset = "matic" -> <<"m", "a", "t", "i", "c">>
    [] asset = "uniswap" -> <<"u", "n", "i", "s", "w", "a", "p">>
    [] asset = "uni" -> <<"u", "n", "i">>
    [] asset = "stellar" -> <<"s", "t", "e", "l", "l", "a", "r">>
    [] asset = "xlm" -> <<"x", "l", "m">>
    [] asset = "cosmos" -> <<"c", "o", "s", "m", "o", "s">>
    [] asset = "atom" -> <<"a", "t", "o", "m">>
    [] asset = "near protocol" -> <<"n", "e", "a", "r", " ", "p", "r", "o", "t", "o", "c", "o", "l">>
    [] asset = "near" -> <<"n", "e", "a", "r">>
    [] asset = "algorand" -> <<"a", "l", "g", "o", "r", "a", "n", "d">>
    [] asset = "algo" -> <<"a", "l", "g", "o">>
    [] asset = "tron" -> <<"t", "r", "o", "n">>
    [] asset = "trx" -> <<"t", "r", "x">>
    [] asset = "s&p 500" -> <<"s", "&", "p", " ", "5", "0", "0">>
    [] asset = "nasdaq" -> <<"n", "a", "s", "d", "a", "q">>
    [] asset = "dow jones" -> <<"d", "o", "w", " ", "j", "o", "n", "e", "s">>
    [] asset = "dji" -> <<"d", "j", "i">>
    [] asset = "gold" -> <<"g", "o", "l", "d">>
    [] asset = "silver" -> <<"s", "i", "l", "v", "e", "r">>
    [] asset = "crude oil" -> <<"c", "r", "u", "d", "e", " ", "o", "i", "l">>
    [] asset = "natural gas" -> <<"n", "a", "t", "u", "r", "a", "l", " ", "g", "a", "s">>
    [] asset = "tesla" -> <<"t", "e", "s", "l", "a">>
    [] asset = "apple" -> <<"a", "p", "p", "l", "e">>
    [] asset = "microsoft" -> <<"m", "i", "c", "r", "o", "s", "o", "f", "t">>
    [] asset = "amazon" -> <<"a", "m", "a", "z", "o", "n">>
    [] asset = "google" -> <<"g", "o", "o", "g", "l", "e">>
    [] asset = "meta" -> <<"m", "e", "t", "a">>

SymbolMapKeys ==
  { "btc", "bitcoin", "eth", "ethereum", "sol", "solana", "ada", "cardano",
    "bnb", "binance coin", "xrp", "ripple", "doge", "dogecoin", "dot",
    "polkadot", "avax", "avalanche", "ltc", "litecoin", "link",
    "chainlink", "matic", "polygon", "uni", "uniswap", "xlm", "stellar",
    "atom", "cosmos", "near", "near protocol", "algo", "algorand", "trx",
    "tron", "nasdaq", "s&p 500", "dow jones", "dji", "gold", "silver",
    "crude oil", "natural gas", "tesla", "apple", "microsoft", "amazon",
    "google", "meta" }

symbolMap(symbol) ==
  CASE symbol = "btc" -> "Bitcoin"
    [] symbol = "bitcoin" -> "Bitcoin"
    [] symbol = "eth" -> "Ethereum"
    [] symbol = "ethereum" -> "Ethereum"
    [] symbol = "sol" -> "Solana"
    [] symbol = "solana" -> "Solana"
    [] symbol = "ada" -> "Cardano"
    [] symbol = "cardano" -> "Cardano"
    [] symbol = "bnb" -> "BNB"
    [] symbol = "binance coin" -> "BNB"
    [] symbol = "xrp" -> "XRP"
    [] symbol = "ripple" -> "XRP"
    [] symbol = "doge" -> "Dogecoin"
    [] symbol = "dogecoin" -> "Dogecoin"
    [] symbol = "dot" -> "Polkadot"
    [] symbol = "polkadot" -> "Polkadot"
    [] symbol = "avax" -> "Avalanche"
    [] symbol = "avalanche" -> "Avalanche"
    [] symbol = "ltc" -> "Litecoin"
    [] symbol = "litecoin" -> "Litecoin"
    [] symbol = "link" -> "Chainlink"
    [] symbol = "chainlink" -> "Chainlink"
    [] symbol = "matic" -> "Polygon"
    [] symbol = "polygon" -> "Polygon"
    [] symbol = "uni" -> "Uniswap"
    [] symbol = "uniswap" -> "Uniswap"
    [] symbol = "xlm" -> "Stellar"
    [] symbol = "stellar" -> "Stellar"
    [] symbol = "atom" -> "Cosmos"
    [] symbol = "cosmos" -> "Cosmos"
    [] symbol = "near" -> "NEAR Protocol"
    [] symbol = "near protocol" -> "NEAR Protocol"
    [] symbol = "algo" -> "Algorand"
    [] symbol = "algorand" -> "Algorand"
    [] symbol = "trx" -> "TRON"
    [] symbol = "tron" -> "TRON"
    [] symbol = "nasdaq" -> "NASDAQ"
    [] symbol = "s&p 500" -> "S&P 500"
    [] symbol = "dow jones" -> "Dow Jones"
    [] symbol = "dji" -> "Dow Jones"
    [] symbol = "gold" -> "Gold"
    [] symbol = "silver" -> "Silver"
    [] symbol = "crude oil" -> "Crude Oil"
    [] symbol = "natural gas" -> "Natural Gas"
    [] symbol = "tesla" -> "Tesla"
    [] symbol = "apple" -> "Apple"
    [] symbol = "microsoft" -> "Microsoft"
    [] symbol = "amazon" -> "Amazon"
    [] symbol = "google" -> "Google"
    [] symbol = "meta" -> "Meta"

\* symbol.charAt(0).toUpperCase() + symbol.slice(1)
UpperFirst(symbol) ==
  CASE symbol = "btc" -> "Btc"
    [] symbol = "bitcoin" -> "Bitcoin"
    [] symbol = "eth" -> "Eth"
    [] symbol = "ethereum" -> "Ethereum"
    [] symbol = "sol" -> "Sol"
    [] symbol = "solana" -> "Solana"
    [] symbol = "ada" -> "Ada"
    [] symbol = "cardano" -> "Cardano"
    [] symbol = "bnb" -> "Bnb"
    [] symbol = "binance coin" -> "Binance coin"
    [] symbol = "xrp" -> "Xrp"
    [] symbol = "ripple" -> "Ripple"
    [] symbol = "doge" -> "Doge"
    [] symbol = "dogecoin" -> "Dogecoin"
    [] symbol = "dot" -> "Dot"
    [] symbol = "polkadot" -> "Polkadot"
    [] symbol = "avax" -> "Avax"
    [] symbol = "avalanche" -> "Avalanche"
    [] symbol = "ltc" -> "Ltc"
    [] symbol = "litecoin" -> "Litecoin"
    [] symbol = "link" -> "Link"
    [] symbol = "chainlink" -> "Chainlink"
    [] symbol = "matic" -> "Matic"
    [] symbol = "polygon" -> "Polygon"
    [] symbol = "uni" -> "Uni"
    [] symbol = "uniswap" -> "Uniswap"
    [] symbol = "xlm" -> "Xlm"
    [] symbol = "stellar" -> "Stellar"
    [] symbol = "atom" -> "Atom"
    [] symbol = "cosmos" -> "Cosmos"
    [] symbol = "near" -> "Near"
    [] symbol = "near protocol" -> "Near protocol"
    [] symbol = "algo" -> "Algo"
    [] symbol = "algorand" -> "Algorand"
    [] symbol = "trx" -> "Trx"
    [] symbol = "tron" -> "Tron"
    [] symbol = "nasdaq" -> "Nasdaq"
    [] symbol = "s&p 500" -> "S&p 500"
    [] symbol = "dow jones" -> "Dow jones"
    [] symbol = "dji" -> "Dji"
    [] symbol = "gold" -> "Gold"
    [] symbol = "silver" -> "Silver"
    [] symbol = "crude oil" -> "Crude oil"
    [] symbol = "natural gas" -> "Natural gas"
    [] symbol = "tesla" -> "Tesla"
    [] symbol = "apple" -> "Apple"
    [] symbol = "microsoft" -> "Microsoft"
    [] symbol = "amazon" -> "Amazon"
    [] symbol = "google" -> "Google"
    [] symbol = "meta" -> "Meta"
    [] OTHER -> symbol

\* symbolMap[symbol] || symbol.charAt(0).toUpperCase() + symbol.slice(1)
mapSymbolToName(symbol) ==
  IF symbol \in SymbolMapKeys THEN symbolMap(symbol) ELSE UpperFirst(symbol)

\* The names symbolMap maps to.
CanonicalNames == {symbolMap(symbol) : symbol \in SymbolMapKeys}

\* The queries of the model: up to MaxPieces pieces written one after the
\* other.
MaxPieces == 3

QueryPieces ==
  { <<"b", "t", "c">>,
    <<"B", "i", "t", "c", "o", "i", "n">>,
    <<"s", "o", "l">>,
    <<"s", "o", "l", "a", "n", "a">>,
    <<"a", "d", "a">>,
    <<"ñ">>,
    <<" ">>,
    <<"_">>,
    <<"d", "o", "t">>,
    <<"x">> }

\* query.toLowerCase(), character by character.
toLowerCaseChar(c) ==
  CASE c = "B" -> "b"
    [] c = "Ñ" -> "ñ"
    [] OTHER -> c
toLowerCaseChars(query) == [i \in 1..Len(query) |-> toLowerCaseChar(query[i])]

\* String.prototype.includes: asset occurs in query at position p.
OccursAt(query, asset, p) ==
  /\ p >= 1
  /\ p + Len(asset) - 1 <= Len(query)
  /\ SubSeq(query, p, p + Len(asset) - 1) = asset
includes(query, asset) == \E p \in 1..Len(query) : OccursAt(query, asset, p)

\* The characters the regular expression class \w holds: [A-Za-z0-9_].
WordChars ==
  { "a", "b", "c", "d", "e", "f", "g", "h", "i", "j", "k", "l", "m", "n", "o",
    "p", "q", "r", "s", "t", "u", "v", "w", "x", "y", "z",
    "A", "B", "C", "D", "E", "F", "G", "H", "I", "J", "K", "L", "M", "N", "O",
    "P", "Q", "R", "S", "T", "U", "V", "W", "X", "Y", "Z",
    "0", "1", "2", "3", "4", "5", "6", "7", "8", "9", "_" }

\* \b between the characters k and k + 1 of query: exactly one of the two
\* is a \w character (the ends of the string count as none).
IsWordCharAt(query, k) == k \in 1..Len(query) /\ query[k] \in WordChars
WordBoundary(query, k) == IsWordCharAt(query, k) # IsWordCharAt(query, k + 1)

\* new RegExp(`\\b${asset}\\b`, 'i').test(query)
RegExpTest(query, asset) ==
  \E p \in 1..Len(query) :
    /\ OccursAt(query, asset, p)
    /\ WordBoundary(query, p - 1)
    /\ WordBoundary(query, p + Len(asset) - 1)

\* The test the loop makes for one entry of commonAssets.
AssetFound(normalizedQuery, asset) ==
  /\ includes(normalizedQuery, Chars(asset))
  /\ Len(Chars(asset)) <= 4 => RegExpTest(normalizedQuery, Chars(asset))

\* The loop over commonAssets from entry i on, with the names found so far.
RECURSIVE ExtractFrom(_, _, _)
ExtractFrom(normalizedQuery, i, assets) ==
  IF i > Len(commonAssets) THEN assets
  ELSE LET fullName == mapSymbolToName(commonAssets[i])
           found == AssetFound(normalizedQuery, commonAssets[i])
           includesName == \E j \in 1..Len(assets) : assets[j] = fullName
       IN  ExtractFrom(normalizedQuery, i + 1,
                       IF found /\ ~includesName THEN Append(assets, fullName)
                       ELSE assets)

extractAssetsFromQuery(query) == ExtractFrom(toLowerCaseChars(query), 1, <<>>)

\* The query grows by a piece and the interpreter is run on it.
ExtractAssets(piece) ==
  /\ parsed.pieces < MaxPieces
  /\ parsed' = [query |-> parsed.query \o piece,
                pieces |-> parsed.pieces + 1,
                assets |-> extractAssetsFromQuery(parsed.query \o piece)]
  /\ UNCHANGED <<submitVars, consensusFetch, serviceVars, marketVars, displayVars,
                 comparisonVars, analyticsVars>>

NextParser == \E piece \in QueryPieces : ExtractAssets(piece)

----------------------------------------------------------------------------
(* The market-data service (moralisService) *)

\* What the price request can do: fail (network error, non-OK status or no
\* price in the body), or answer with a price in cents.
FetchedPrices == {120}
PriceOutcomes == {[ok |-> FALSE, price |-> 0]}
                   \cup {[ok |-> TRUE, price |-> p] : p \in FetchedPrices}

\* What the history request can do: fail, or answer with a list of prices.
FetchedSeries ==
  { <<>>,
    <<100, 101, 102, 103, 104, 110>>,
    <<100, 99, 98, 97, 96, 90>> }
HistoryOutcomes == {[ok |-> FALSE, prices |-> <<>>]}
                     \cup {[ok |-> TRUE, prices |-> h] : h \in FetchedSeries}

getTokenPrice(token, out) ==
  IF out.ok /\ out.price # 0 THEN out.price ELSE EstimatedPrice(token)

\* The mock series of getHistoricalPrices' catch branch: days + 1 points,
\* basePrice * (1 + ((days - i) / days) * 0.1) * (1 + (random - 0.5) * 0.06).
MockDays == 14
MockPoint(base, j, k) ==
  LET drift == base + (base * j) \div (10 * MockDays)
      randomChange == (60 * k) \div RandDen - 30      \* in 1/1000, -30..29
  IN  drift + (drift * randomChange) \div 1000
MockHistorical(token, s) ==
  [j \in 1..(MockDays + 1) |-> MockPoint(getBasePrice(token), j - 1, Draw(s, j))]

\* getHistoricalPrices whose mock loop stops one day short.
getHistoricalPrices_OneDayShort(token, out, s) ==
  IF out.ok THEN out.prices ELSE SubSeq(MockHistorical(token, s), 1, MockDays)

getHistoricalPrices(token, out, s) ==
  IF out.ok THEN out.prices ELSE MockHistorical(token, s)

\* percentChange = past > 0 ? ((recent - past) / past) * 100 : 0: whether the
\* division is made for a series.
PercentChangeDivides(historicalPrices) ==
  Len(historicalPrices) > 5 /\ historicalPrices[1] > 0

\* The trend rule of getMarketDataFeeds.
TrendOf(historicalPrices) ==
  IF Len(historicalPrices) > 5
  THEN LET recent == historicalPrices[Len(historicalPrices)]
           past == historicalPrices[1]
       IN  IF past > 0 /\ (recent - past) * 100 > 5 * past THEN "up"
           ELSE IF past > 0 /\ (recent - past) * 100 < -5 * past THEN "down"
           ELSE "stable"
  ELSE "stable"

MakeFeed(asset, po, ho, s) ==
  LET historicalPrices == getHistoricalPrices(asset, ho, s) IN
  [ name |-> Capitalize(asset),
    feed_id |-> toLowerCase(asset),
    current_value |-> getTokenPrice(asset, po),
    historical |-> historicalPrices,
    trend |-> TrendOf(historicalPrices) ]

\* getMarketDataFeeds: one feed per asset, in order.  net[i] holds what the
\* two requests made for assets[i] do.
getMarketDataFeeds(assets, net, s) ==
  [i \in 1..Len(assets) |-> MakeFeed(assets[i], net[i].price, net[i].history, s)]

----------------------------------------------------------------------------
(* handlePredictionSubmit (Header) *)

Labels == {"HIGHLY LIKELY", "LIKELY", "SOMEWHAT LIKELY", "UNCERTAIN",
           "SOMEWHAT UNLIKELY", "UNLIKELY"}

ModelNames == <<"DeepSeek R1 Zero", "Gemini Flash Lite 2.0", "Mistral Small 3",
                "QwQ 32B", "Llama 3.3 70B">>
Models == {ModelNames[i] : i \in 1..Len(ModelNames)}

ConfUnit == 400

\* The questions the model submits: the text stands for the assets
\* extractAssetsFromQuery finds in it and for whether it holds one of the
\* words price, value, worth.  The blank question is the one that trims to "".
Questions ==
  { [text |-> "", assets |-> <<>>, hasPriceQuestion |-> FALSE],
    [text |-> "Will the price of Litecoin rise next week?",
       assets |-> <<"Litecoin">>, hasPriceQuestion |-> TRUE],
    [text |-> "What will XRP be worth in 2025?",
       assets |-> <<"XRP">>, hasPriceQuestion |-> TRUE],
    [text |-> "Is Litecoin going to outperform XRP?",
       assets |-> <<"Litecoin", "XRP">>, hasPriceQuestion |-> FALSE],
    [text |-> "Where is the market heading?",
       assets |-> <<>>, hasPriceQuestion |-> FALSE] }

DefaultAssets == <<"Bitcoin", "Ethereum", "Solana">>

\* One price question for every name extractAssetsFromQuery can return, and
\* one that names no asset.
AssetQuestions ==
  { [text |-> "What will it be worth next year?",
       assets |-> <<>>, hasPriceQuestion |-> TRUE],
    [text |-> "What is the price of Bitcoin?",
       assets |-> <<"Bitcoin">>, hasPriceQuestion |-> TRUE],
    [text |-> "What is the price of Ethereum?",
       assets |-> <<"Ethereum">>, hasPriceQuestion |-> TRUE],
    [text |-> "What is the price of Solana?",
       assets |-> <<"Solana">>, hasPriceQuestion |-> TRUE],
    [text |-> "What is the price of Cardano?",
       assets |-> <<"Cardano">>, hasPriceQuestion |-> TRUE],
    [text |-> "What is the price of BNB?",
       assets |-> <<"BNB">>, hasPriceQuestion |-> TRUE],
    [text |-> "What is the price of XRP?",
       assets |-> <<"XRP">>, hasPriceQuestion |-> TRUE],
    [text |-> "What is the price of Dogecoin?",
       assets |-> <<"Dogecoin">>, hasPriceQuestion |-> TRUE],
    [text |-> "What is the price of Polkadot?",
       assets |-> <<"Polkadot">>, hasPriceQuestion |-> TRUE],
    [text |-> "What is the price of Avalanche?",
       assets |-> <<"Avalanche">>, hasPriceQuestion |-> TRUE],
    [text |-> "What is the price of Litecoin?",
       assets |-> <<"Litecoin">>, hasPriceQuestion |-> TRUE],
    [text |-> "What is the price of Chainlink?",
       assets |-> <<"Chainlink">>, hasPriceQuestion |-> TRUE],
    [text |-> "What is the price of Polygon?",
       assets |-> <<"Polygon">>, hasPriceQuestion |-> TRUE],
    [text |-> "What is the price of Uniswap?",
       assets |-> <<"Uniswap">>, hasPriceQuestion |-> TRUE],
    [text |-> "What is the price of Stellar?",
       assets |-> <<"Stellar">>, hasPriceQuestion |-> TRUE],
    [text |-> "What is the price of Cosmos?",
       assets |-> <<"Cosmos">>, hasPriceQuestion |-> TRUE],
    [text |-> "What is the price of NEAR Protocol?",
       assets |-> <<"NEAR Protocol">>, hasPriceQuestion |-> TRUE],
    [text |-> "What is the price of Algorand?",
       assets |-> <<"Algorand">>, hasPriceQuestion |-> TRUE],
    [text |-> "What is the price of TRON?",
       assets |-> <<"TRON">>, hasPriceQuestion |-> TRUE],
    [text |-> "What is the price of NASDAQ?",
       assets |-> <<"NASDAQ">>, hasPriceQuestion |-> TRUE],
    [text |-> "What is the price of S&P 500?",
       assets |-> <<"S&P 500">>, hasPriceQuestion |-> TRUE],
    [text |-> "What is the price of Dow Jones?",
       assets |-> <<"Dow Jones">>, hasPriceQuestion |-> TRUE],
    [text |-> "What is the price of Gold?",
       assets |-> <<"Gold">>, hasPriceQuestion |-> TRUE],
    [text |-> "What is the price of Silver?",
       assets |-> <<"Silver">>, hasPriceQuestion |-> TRUE],
    [text |-> "What is the price of Crude Oil?",
       assets |-> <<"Crude Oil">>, hasPriceQuestion |-> TRUE],
    [text |-> "What is the price of Natural Gas?",
       assets |-> <<"Natural Gas">>, hasPriceQuestion |-> TRUE],
    [text |-> "What is the price of Tesla?",
       assets |-> <<"Tesla">>, hasPriceQuestion |-> TRUE],
    [text |-> "What is the price of Apple?",
       assets |-> <<"Apple">>, hasPriceQuestion |-> TRUE],
    [text |-> "What is the price of Microsoft?",
       assets |-> <<"Microsoft">>, hasPriceQuestion |-> TRUE],
    [text |-> "What is the price of Amazon?",
       assets |-> <<"Amazon">>, hasPriceQuestion |-> TRUE],
    [text |-> "What is the price of Google?",
       assets |-> <<"Google">>, hasPriceQuestion |-> TRUE],
    [text |-> "What is the price of Meta?",
       assets |-> <<"Meta">>, hasPriceQuestion |-> TRUE] }

\* The find callback comparing the names as they are written.
FeedMatches_CaseSensitive(feed, primaryAsset) ==
  \/ feed.name = primaryAsset
  \/ feed.feed_id = primaryAsset

\* dataFeeds.find(feed => feedName === assetName || feedId.includes(assetName))
FeedMatches(feed, primaryAsset) ==
  \/ toLowerCase(feed.name) = toLowerCase(primaryAsset)
  \/ includes(Chars(toLowerCase(feed.feed_id)), Chars(toLowerCase(primaryAsset)))

NoFeed == [name |-> "", feed_id |-> "", current_value |-> 0,
           historical |-> <<>>, trend |-> "stable"]

FindFeed(dataFeeds, primaryAsset) ==
  IF \E i \in 1..Len(dataFeeds) : FeedMatches(dataFeeds[i], primaryAsset)
  THEN dataFeeds[CHOOSE i \in 1..Len(dataFeeds) :
                   /\ FeedMatches(dataFeeds[i], primaryAsset)
                   /\ \A j \in 1..(i - 1) : ~FeedMatches(dataFeeds[j], primaryAsset)]
  ELSE NoFeed

\* trendMultiplier in 1/100: 1.2 + r * 0.4, 0.7 + r * 0.2, 0.9 + r * 0.2.
TrendMultiplier(trend, k) ==
  IF trend = "up" THEN 120 + (40 * k) \div RandDen
  ELSE IF trend = "down" THEN 70 + (20 * k) \div RandDen
  ELSE 90 + (20 * k) \div RandDen

\* The per-model factor in 1/200, from the model's own draw.
ModelFactor(m, k) ==
  CASE m = "DeepSeek R1 Zero" -> 180 + (40 * k) \div RandDen
    [] m = "Gemini Flash Lite 2.0" -> 170 + (60 * k) \div RandDen
    [] m = "Mistral Small 3" -> 160 + (80 * k) \div RandDen
    [] m = "QwQ 32B" -> 190 + (40 * k) \div RandDen
    [] m = "Llama 3.3 70B" -> 200 + (20 * k) \div RandDen

ModelIndex(m) == CHOOSE i \in 1..Len(ModelNames) : ModelNames[i] = m

\* RoundDiv(x * f, d) for x, f >= 0, d > 0, with products that stay small:
\* x * f = d * ((x \div d) * f) + (x % d) * f.
MulRoundDiv(x, f, d) == (x \div d) * f + RoundDiv((x % d) * f, d)

\* Math.round(currentPrice * baseMultiplier * 100) / 100
PredictedPrice(currentPrice, baseMultiplier) ==
  RoundDiv(currentPrice * baseMultiplier, 100)

\* Math.round(currentPrice * multiplier * 100) / 100 for each model
ModelPredictions(currentPrice, baseMultiplier, s) ==
  [m \in Models |->
     MulRoundDiv(currentPrice * baseMultiplier,
                 ModelFactor(m, Draw(s, 1 + ModelIndex(m))), 100 * 200)]

\* Math.round(predictedPrice * f * 100) / 100 for f = pct / 100
Scaled(predictedPrice, pct) == MulRoundDiv(predictedPrice, pct, 100)

ConfidenceIntervals(predictedPrice) ==
  [ ci90 |-> <<Scaled(predictedPrice, 75), Scaled(predictedPrice, 125)>>,
    ci70 |-> <<Scaled(predictedPrice, 85), Scaled(predictedPrice, 115)>>,
    ci50 |-> <<Scaled(predictedPrice, 95), Scaled(predictedPrice, 105)>> ]

\* The decision rule: Math.random() > 0.3 is 10 * k > 3 * RandDen, and
\* Math.floor(Math.random() * 5) is (5 * k) \div RandDen.
RandomDecisions == <<"LIKELY", "SOMEWHAT LIKELY", "UNCERTAIN", "UNLIKELY", "HIGHLY LIKELY">>

\* The decision rule with the two trend branches exchanged.
FinalDecision_TrendsExchanged(trend, hasPriceQuestion, k) ==
  IF trend = "down" /\ hasPriceQuestion
  THEN IF 10 * k > 3 * RandDen THEN "LIKELY" ELSE "HIGHLY LIKELY"
  ELSE IF trend = "up" /\ hasPriceQuestion
  THEN IF 10 * k > 3 * RandDen THEN "UNLIKELY" ELSE "SOMEWHAT LIKELY"
  ELSE RandomDecisions[((Len(RandomDecisions) * k) \div RandDen) + 1]

FinalDecision(trend, hasPriceQuestion, k) ==
  IF trend = "up" /\ hasPriceQuestion
  THEN IF 10 * k > 3 * RandDen THEN "LIKELY" ELSE "HIGHLY LIKELY"
  ELSE IF trend = "down" /\ hasPriceQuestion
  THEN IF 10 * k > 3 * RandDen THEN "UNLIKELY" ELSE "SOMEWHAT LIKELY"
  ELSE RandomDecisions[((Len(RandomDecisions) * k) \div RandDen) + 1]

\* 0.6 + Math.random() * 0.35, in 1/400
Confidence(k) == 240 + (140 * k) \div RandDen

\* The models' decisions with one label misspelt.
ModelDecision_Misspelt(m, finalDecision) ==
  CASE m = "Mistral Small 3" ->
         IF finalDecision = "HIGHLY LIKELY" THEN "LIKELY"
         ELSE IF finalDecision = "UNLIKELY" THEN "SOMEWHAT LIKELY" ELSE "UNCERTIAN"
    [] OTHER -> finalDecision

\* generateVerificationDetails: each model's decision from the final one.
ModelDecision(m, finalDecision) ==
  CASE m = "DeepSeek R1 Zero" -> finalDecision
    [] m = "Gemini Flash Lite 2.0" ->
         IF finalDecision = "LIKELY" THEN "SOMEWHAT LIKELY"
         ELSE IF finalDecision = "UNLIKELY" THEN "UNCERTAIN" ELSE finalDecision
    [] m = "Mistral Small 3" ->
         IF finalDecision = "HIGHLY LIKELY" THEN "LIKELY"
         ELSE IF finalDecision = "UNLIKELY" THEN "SOMEWHAT LIKELY" ELSE "UNCERTAIN"
    [] m = "QwQ 32B" -> finalDecision
    [] m = "Llama 3.3 70B" ->
         IF finalDecision = "LIKELY" THEN "HIGHLY LIKELY"
         ELSE IF finalDecision = "UNLIKELY" THEN "UNLIKELY" ELSE finalDecision

\* generateVerificationDetails: each model's confidence, in 1/400:
\* confidence - 0.15 + r * 0.3, - 0.2 + r * 0.25, - 0.25 + r * 0.2,
\* - 0.05 + r * 0.15, + r * 0.15.
ModelConfidence(m, confidence, k) ==
  CASE m = "DeepSeek R1 Zero" -> confidence - 60 + (120 * k) \div RandDen
    [] m = "Gemini Flash Lite 2.0" -> confidence - 80 + (100 * k) \div RandDen
    [] m = "Mistral Small 3" -> confidence - 100 + (80 * k) \div RandDen
    [] m = "QwQ 32B" -> confidence - 20 + (60 * k) \div RandDen
    [] m = "Llama 3.3 70B" -> confidence + (60 * k) \div RandDen

\* The draw each model's confidence uses: model_agreement takes draw 9 and
\* the evidence list of the first model draw 11.
ConfidenceDraw(m) ==
  CASE m = "DeepSeek R1 Zero" -> 10
    [] m = "Gemini Flash Lite 2.0" -> 12
    [] m = "Mistral Small 3" -> 13
    [] m = "QwQ 32B" -> 14
    [] m = "Llama 3.3 70B" -> 15

generateVerificationDetails(finalDecision, confidence, s) ==
  [ model_agreement |-> confidence - 20 + (40 * Draw(s, 9)) \div RandDen,
    model_responses |->
      [m \in Models |->
         [ decision |-> ModelDecision(m, finalDecision),
           confidence |-> ModelConfidence(m, confidence, Draw(s, ConfidenceDraw(m))) ]] ]

\* generateModelComparison
ComparisonNames == <<"TrendWatcher AI", "DeepMarket Analyzer", "Quantum Forecast",
                     "NeuralPrice Predictor", "OnChain Metrics AI", "MacroTrend Evaluator">>

ComparisonPredictions(decision) ==
  IF decision = "LIKELY" \/ decision = "HIGHLY LIKELY"
  THEN <<"LIKELY", "SOMEWHAT LIKELY", "HIGHLY LIKELY", "LIKELY", "UNCERTAIN", "LIKELY">>
  ELSE IF decision = "UNLIKELY" \/ decision = "SOMEWHAT UNLIKELY"
  THEN <<"UNLIKELY", "SOMEWHAT UNLIKELY", "UNCERTAIN", "UNLIKELY", "SOMEWHAT LIKELY", "UNLIKELY">>
  ELSE <<"UNCERTAIN", "SOMEWHAT LIKELY", "SOMEWHAT UNLIKELY", "UNCERTAIN", "LIKELY", "UNCERTAIN">>

BaseConfidence(decision) ==
  CASE decision = "HIGHLY LIKELY" -> 85
    [] decision = "LIKELY" -> 75
    [] decision = "SOMEWHAT LIKELY" -> 65
    [] decision = "UNCERTAIN" -> 50
    [] decision = "SOMEWHAT UNLIKELY" -> 35
    [] decision = "UNLIKELY" -> 25
    [] OTHER -> 50

\* Math.min(Math.max(baseConfidence + Math.floor(r * 15) - 7, 10), 95): the
\* number stored is 10..95, which is ConfUnit times that in the model's unit.
AdjustedConfidence(decision, k) ==
  Min(Max(BaseConfidence(decision) + ((15 * k) \div RandDen) - 7, 10), 95) * ConfUnit

generateModelComparison(decision, s) ==
  [i \in 1..Len(ComparisonNames) |->
     [ name |-> ComparisonNames[i],
       prediction |-> ComparisonPredictions(decision)[i],
       confidence |-> AdjustedConfidence(decision, Draw(s, 16 + i)) ]]

NoPricePrediction == [defined |-> FALSE]

\* Everything handlePredictionSubmit does after the market data arrived: the
\* argument of its setPredictionData call.
BuildPredictionData(q, dataFeeds, s) ==
  LET identifiedAssets == q.assets
      primaryAsset == IF Len(identifiedAssets) > 0 THEN identifiedAssets[1] ELSE "Bitcoin"
      primaryAssetData == FindFeed(dataFeeds, primaryAsset)
      currentPrice == primaryAssetData.current_value
      trend == primaryAssetData.trend
      baseMultiplier == TrendMultiplier(trend, Draw(s, 1))
      predictedPrice == PredictedPrice(currentPrice, baseMultiplier)
      finalDecision == FinalDecision(trend, q.hasPriceQuestion, Draw(s, 7))
      confidence == Confidence(Draw(s, 8))
  IN  [ defined |-> TRUE,
        question |-> q.text,
        processedQuery |->
          [ question_type |-> IF q.hasPriceQuestion THEN "price_prediction" ELSE "market_trend",
            identified_assets |-> identifiedAssets ],
        verificationResult |->
          [ final_decision |-> finalDecision,
            confidence |-> confidence,
            verification |-> generateVerificationDetails(finalDecision, confidence, s),
            price_prediction |->
              IF q.hasPriceQuestion
              THEN [ defined |-> TRUE,
                     asset |-> primaryAsset,
                     current_price |-> currentPrice,
                     predicted_price |-> predictedPrice,
                     predicted_range |-> <<Scaled(predictedPrice, 90), Scaled(predictedPrice, 110)>>,
                     model_predictions |-> ModelPredictions(currentPrice, baseMultiplier, s),
                     confidence_intervals |-> ConfidenceIntervals(predictedPrice) ]
              ELSE NoPricePrediction ],
        dataFeeds |-> dataFeeds,
        modelComparison |-> generateModelComparison(finalDecision, s) ]

NoPrediction == [defined |-> FALSE]

\* What the requests of one getMarketDataFeeds call can do: any outcome for
\* the first asset, while the requests for the others fail.
Outcomes == [price : PriceOutcomes, history : HistoryOutcomes]
FailOutcome == [price |-> [ok |-> FALSE, price |-> 0],
                history |-> [ok |-> FALSE, prices |-> <<>>]]
RestOutcomes == {FailOutcome}
NetScenarios(n) ==
  {[i \in 1..n |-> IF i = 1 THEN a ELSE b] : a \in Outcomes, b \in RestOutcomes}

RemoveAt(seq, i) == SubSeq(seq, 1, i - 1) \o SubSeq(seq, i + 1, Len(seq))

\* History of overlapping calls: the question of the call made last while
\* another was in progress, and whether a call has thrown since.
NoOverlap == [last |-> "", thrown |-> FALSE]

\* handlePredictionSubmit up to its await of getMarketDataFeeds.
Submit(q) ==
  /\ q.text # ""
  /\ isPredictionLoading' = TRUE
  /\ analysisStatus' = "Query processed. Retrieving market data..."
  /\ inflight' = Append(inflight, q)
  /\ overlapped' = IF inflight = <<>> THEN NoOverlap
                   ELSE [overlapped EXCEPT !.last = q.text]
  /\ UNCHANGED <<predictionData, consensusFetch>>
  /\ UNCHANGED <<serviceVars, marketVars, displayVars, comparisonVars, analyticsVars, parserVars>>

\* handlePredictionSubmit from the await on: the market data of submission i
\* arrives, the result is stored and the finally block runs.
SubmitResolve(i, net, s) ==
  /\ i \in 1..Len(inflight)
  /\ analysisStatus' = "Market data retrieved. Running AI consensus analysis..."
  /\ isPredictionLoading' = FALSE
  /\ inflight' = RemoveAt(inflight, i)
  /\ LET q == inflight[i]
         assets == IF Len(q.assets) > 0 THEN q.assets ELSE DefaultAssets
     IN  \E dataFeeds \in {getMarketDataFeeds(assets, net, s)} :
           predictionData' = BuildPredictionData(q, dataFeeds, s)
  /\ UNCHANGED <<overlapped, consensusFetch>>
  /\ UNCHANGED <<serviceVars, marketVars, displayVars, comparisonVars, analyticsVars, parserVars>>

\* What the try block can throw: an Error with its message, or another value.
ThrownValues ==
  { [instanceofError |-> TRUE, message |-> "Failed to fetch"],
    [instanceofError |-> TRUE, message |-> ""],
    [instanceofError |-> FALSE, message |-> "timeout"] }

\* `Error: ${message}` for the messages of ThrownValues.
ErrorTemplate(message) ==
  CASE message = "Failed to fetch" -> "Error: Failed to fetch"
    [] message = "" -> "Error: "
    [] OTHER -> "Error: Unknown error"

CatchStatus_Unchanged(error) == analysisStatus

\* The catch block's status text.
CatchStatus(error) ==
  ErrorTemplate(IF error.instanceofError THEN error.message ELSE "Unknown error")

\* handlePredictionSubmit from the await on, when the try block throws: the
\* catch block and the finally block run.
SubmitThrows(i, error) ==
  /\ i \in 1..Len(inflight)
  /\ analysisStatus' = CatchStatus(error)
  /\ isPredictionLoading' = FALSE
  /\ inflight' = RemoveAt(inflight, i)
  /\ overlapped' = [overlapped EXCEPT !.thrown = @ \/ overlapped.last # ""]
  /\ UNCHANGED <<predictionData, consensusFetch>>
  /\ UNCHANGED <<serviceVars, marketVars, displayVars, comparisonVars, analyticsVars, parserVars>>

----------------------------------------------------------------------------
(* consensusApi.getConsensusData (services/api) *)

\* The mock list of the catch branch.  consensus_value is in cents, values
\* are in dollars and weights in 1/100, so a value times a weight is in cents.
MockConsensusData ==
  << [ consensus_id |-> "cons-1",
       consensus_value |-> 2735045,
       participant_count |-> 5,
       details |-> [ values |-> <<27300, 27400, 27380, 27325, 27350>>,
                     weights |-> <<30, 20, 20, 15, 15>> ] ],
     [ consensus_id |-> "cons-2",
       consensus_value |-> 2728012,
       participant_count |-> 5,
       details |-> [ values |-> <<27260, 27290, 27300, 27275, 27280>>,
                     weights |-> <<30, 20, 20, 15, 15>> ] ] >>

\* What the backend may answer when the request succeeds.
ServerConsensusData ==
  { << [ consensus_id |-> "srv-1",
         consensus_value |-> 150,
         participant_count |-> 2,
         details |-> [ values |-> <<1, 2>>, weights |-> <<50, 50>> ] ] >> }

\* The call starts: apiClient.get('/api/consensus/data') is in flight.
GetConsensusData ==
  /\ consensusFetch.st # "pending"
  /\ consensusFetch' = [st |-> "pending", fallback |-> FALSE, data |-> <<>>]
  /\ UNCHANGED <<submitVars, serviceVars, marketVars, displayVars, comparisonVars, analyticsVars, parserVars>>

\* The request succeeds and the call resolves with response.data.
ConsensusDataOk(data) ==
  /\ consensusFetch.st = "pending"
  /\ consensusFetch' = [st |-> "resolved", fallback |-> FALSE, data |-> data]
  /\ UNCHANGED <<submitVars, serviceVars, marketVars, displayVars, comparisonVars, analyticsVars, parserVars>>

\* The request fails (axios rejects on a network error and on a non-2xx
\* status) and the catch branch resolves with the mock list.
ConsensusDataFail ==
  /\ consensusFetch.st = "pending"
  /\ consensusFetch' = [st |-> "resolved", fallback |-> TRUE, data |-> MockConsensusData]
  /\ UNCHANGED <<submitVars, serviceVars, marketVars, displayVars, comparisonVars, analyticsVars, parserVars>>

----------------------------------------------------------------------------
(* The service functions: how each call settles, given what its request does *)

\* What a request can do: answer with an OK status, answer with a non-OK
\* status, or fail on the network.
NetOutcomes == {"ok", "status", "error"}

Fulfilled(v) == [settled |-> "fulfilled", value |-> v]
Rejected == [settled |-> "rejected", value |-> "error"]
Idle == [settled |-> "idle", value |-> "none"]
Pending == [settled |-> "pending", value |-> "none"]

\* getAllFeeds with a catch block that throws the error again.
ftsoApi_getAllFeeds_Rethrows(net) ==
  IF net = "ok" THEN Fulfilled("response") ELSE Rejected

\* services/api: axios rejects on a network failure and on a non-2xx status,
\* and every function catches.
ftsoApi_getAllFeeds(net) ==
  IF net = "ok" THEN Fulfilled("response") ELSE Fulfilled("placeholder")
ftsoApi_getFeedById(net) ==
  IF net = "ok" THEN Fulfilled("response") ELSE Fulfilled("null")
modelComparisonApi_getAllModels(net) ==
  IF net = "ok" THEN Fulfilled("response") ELSE Fulfilled("placeholder")

\* The prediction service: each function throws on a non-OK status, logs in
\* its catch block and throws the error again.
analyzePrediction(net) ==
  IF net = "ok" THEN Fulfilled("response") ELSE Rejected
predictionService_getMarketDataFeeds(net) ==
  IF net = "ok" THEN Fulfilled("response") ELSE Rejected
getModelComparison(net) ==
  IF net = "ok" THEN Fulfilled("response") ELSE Rejected

\* The market-data service: the functions above, seen as calls.
ServiceToken == "Litecoin"
PriceOutcomeOf(net) ==
  IF net = "ok" THEN [ok |-> TRUE, price |-> 120] ELSE [ok |-> FALSE, price |-> 0]
HistoryOutcomeOf(net) ==
  IF net = "ok" THEN [ok |-> TRUE, prices |-> <<100, 101, 102, 103, 104, 110>>]
  ELSE [ok |-> FALSE, prices |-> <<>>]

getTokenPrice_call(net) ==
  LET price == getTokenPrice(ServiceToken, PriceOutcomeOf(net))
  IN  Fulfilled(IF net = "ok" /\ price = PriceOutcomeOf(net).price
                THEN "response" ELSE "placeholder")
getHistoricalPrices_call(net) ==
  LET h == getHistoricalPrices(ServiceToken, HistoryOutcomeOf(net), <<0, 0, 0>>)
  IN  Fulfilled(IF net = "ok" /\ h = HistoryOutcomeOf(net).prices
                THEN "response" ELSE "placeholder")
getMarketDataFeeds_call(net) ==
  LET feeds == getMarketDataFeeds(<<ServiceToken>>,
                                  <<[price |-> PriceOutcomeOf(net),
                                     history |-> HistoryOutcomeOf(net)]>>, <<0, 0, 0>>)
  IN  Fulfilled(IF net = "ok" /\ feeds[1].current_value = PriceOutcomeOf(net).price
                THEN "response" ELSE "placeholder")

Services == {"ftsoApi.getAllFeeds", "ftsoApi.getFeedById",
             "modelComparisonApi.getAllModels", "getTokenPrice",
             "getHistoricalPrices", "moralisService.getMarketDataFeeds",
             "predictionService.getMarketDataFeeds", "analyzePrediction",
             "getModelComparison"}

Settle(f, net) ==
  CASE f = "ftsoApi.getAllFeeds" -> ftsoApi_getAllFeeds(net)
    [] f = "ftsoApi.getFeedById" -> ftsoApi_getFeedById(net)
    [] f = "modelComparisonApi.getAllModels" -> modelComparisonApi_getAllModels(net)
    [] f = "getTokenPrice" -> getTokenPrice_call(net)
    [] f = "getHistoricalPrices" -> getHistoricalPrices_call(net)
    [] f = "moralisService.getMarketDataFeeds" -> getMarketDataFeeds_call(net)
    [] f = "predictionService.getMarketDataFeeds" -> predictionService_getMarketDataFeeds(net)
    [] f = "analyzePrediction" -> analyzePrediction(net)
    [] f = "getModelComparison" -> getModelComparison(net)

MaxCalls == 3

\* A caller calls service function f: its request is in flight.
CallService(f) ==
  /\ callCount < MaxCalls
  /\ calls[f].settled # "pending"
  /\ calls' = [calls EXCEPT ![f] = Pending @@ [net |-> "none"]]
  /\ callCount' = callCount + 1
  /\ UNCHANGED <<submitVars, consensusFetch, marketVars, displayVars, comparisonVars, analyticsVars, parserVars>>

\* The request of the pending call of f does net, and the call settles.
ServiceSettles(f, net) ==
  /\ calls[f].settled = "pending"
  /\ calls' = [calls EXCEPT ![f] = Settle(f, net) @@ [net |-> net]]
  /\ UNCHANGED <<callCount, submitVars, consensusFetch, marketVars, displayVars, comparisonVars, analyticsVars, parserVars>>

NextServices ==
  \/ \E f \in Services : CallService(f)
  \/ \E f \in Services : \E net \in NetOutcomes : ServiceSettles(f, net)
  \/ GetConsensusData
  \/ \E data \in ServerConsensusData : ConsensusDataOk(data)
  \/ ConsensusDataFail

----------------------------------------------------------------------------
(* MarketAnalytics: the indicator calculator *)

\* A point of a feed's historical series is its value, or Missing when the
\* point carries none; historical[i]?.value || 0 reads it.
Missing == -1
ValueOr0(p) == IF p = Missing THEN 0 ELSE p
Values(historical) == [i \in 1..Len(historical) |-> ValueOr0(historical[i])]

\* The series of the model: for each length up to MaxLen a constant, a
\* rising, a falling, an alternating and some step series, and one with gaps.
MaxLen == 31
SeriesOfLen(n) ==
  { [i \in 1..n |-> 0], [i \in 1..n |-> 5],
    [i \in 1..n |-> i], [i \in 1..n |-> n - i],
    [i \in 1..n |-> IF i % 2 = 0 THEN 4 ELSE 2],
    [i \in 1..n |-> IF i % 3 = 0 THEN Missing ELSE 3],
    [i \in 1..n |-> IF i <= n \div 2 THEN 1 ELSE 6],
    [i \in 1..n |-> IF i <= n \div 2 THEN 6 ELSE 1],
    [i \in 1..n |-> IF i = n THEN 9 ELSE 2],
    [i \in 1..n |-> IF i = 1 THEN 9 ELSE 2] }
MarketSeries == UNION {SeriesOfLen(n) : n \in 0..MaxLen}

CurrentValues == {0, 100}
MarketFeeds ==
  {[defined |-> TRUE, name |-> "Litecoin", feed_id |-> "litecoin",
    current_value |-> cv, historical |-> h] : cv \in CurrentValues, h \in MarketSeries}

\* The label a formatted percentage carries: "0%" has no decimals, and
\* toFixed(2) has two.
Percent(digits, value) == [digits |-> digits, value |-> value]

\* The branch of calculateTechnicalIndicatorsFromHistorical for a series of
\* fewer than 5 points.  Values are in 1/100.
DefaultIndicators(feed) ==
  [ rsi |-> 50,
    macd |-> "neutral",
    ma50 |-> feed.current_value * 100,
    ma200 |-> feed.current_value * 100,
    bollingerUpper |-> feed.current_value * 105,
    bollingerLower |-> feed.current_value * 95,
    volumeChange |-> Percent(0, 0) ]

\* avgLoss = losses / historical.length || 0.01, times 100 * length: the
\* denominator of rs.
AvgLoss(vals) ==
  LET n == Len(vals)
      losses == SumSeq([i \in 1..(n - 1) |->
                          IF vals[i + 1] < vals[i] THEN vals[i] - vals[i + 1] ELSE 0])
  IN  IF losses = 0 THEN n ELSE 100 * losses

\* The rsi as 100 - 100 / rs, without the 1 + in the denominator.
Rsi_WithoutOnePlus(vals) ==
  LET n == Len(vals)
      change == [i \in 1..(n - 1) |-> vals[i + 1] - vals[i]]
      gains == SumSeq([i \in 1..(n - 1) |-> IF change[i] > 0 THEN change[i] ELSE 0])
      losses == SumSeq([i \in 1..(n - 1) |-> IF change[i] < 0 THEN -change[i] ELSE 0])
  IN  IF gains = 0 THEN 0
      ELSE IF losses = 0 THEN 100 - RoundDiv(n, gains)
      ELSE 100 - RoundDiv(100 * losses, gains)

\* rsi = 100 - 100 / (1 + avgGain / avgLoss), where avgLoss is 0.01 when no
\* value falls; Math.round of it.
Rsi(vals) ==
  LET n == Len(vals)
      change == [i \in 1..(n - 1) |-> vals[i + 1] - vals[i]]
      gains == SumSeq([i \in 1..(n - 1) |-> IF change[i] > 0 THEN change[i] ELSE 0])
      losses == SumSeq([i \in 1..(n - 1) |-> IF change[i] < 0 THEN -change[i] ELSE 0])
  IN  IF losses = 0
      THEN RoundDiv(100 * 100 * gains, 100 * gains + n)
      ELSE RoundDiv(100 * gains, gains + losses)

\* The mean of the last Math.min(k, length) values, in 1/100.
MovingAverage(vals, k) ==
  (100 * SumSeq(LastN(vals, k))) \div Min(k, Len(vals))

\* prices = historical.slice(-20); the mean and the standard deviation of it.
Sma20(vals) == (100 * SumSeq(LastN(vals, 20))) \div Len(LastN(vals, 20))
StdDev20(vals) ==
  LET prices == LastN(vals, 20)
      sma20 == Sma20(vals)
      squaredDifferences ==
        [i \in 1..Len(prices) |-> (100 * prices[i] - sma20) * (100 * prices[i] - sma20)]
  IN  ISqrt(SumSeq(squaredDifferences) \div Len(prices))

\* The lower band with the deviation added instead of subtracted.
BollingerLower_Added(vals) == Sma20(vals) + StdDev20(vals) * 2

BollingerUpper(vals) == Sma20(vals) + StdDev20(vals) * 2
BollingerLower(vals) == Sma20(vals) - StdDev20(vals) * 2

\* shortMA = sum of slice(-12) / 12, longMA = sum of slice(-26) / 26.
Macd(vals) ==
  LET shortSum == SumSeq(LastN(vals, 12))
      longSum == SumSeq(LastN(vals, 26))
  IN  IF shortSum * 26 > longSum * 12 THEN "bullish"
      ELSE IF shortSum * 26 < longSum * 12 THEN "bearish"
      ELSE "neutral"

\* (Math.random() * 20 - 10).toFixed(2) + "%", in 1/100 of a percent
RandomVolumeChange(k) == Percent(2, (2000 * k) \div RandDen - 1000)

\* The calculation with the threshold one lower: a series of 4 is calculated.
calculateTechnicalIndicatorsFromHistorical_Threshold4(feed, k) ==
  LET historical == feed.historical
      vals == Values(historical)
  IN  IF Len(historical) < 4
      THEN DefaultIndicators(feed)
      ELSE [ rsi |-> Rsi(vals),
             macd |-> Macd(vals),
             ma50 |-> MovingAverage(vals, 50),
             ma200 |-> MovingAverage(vals, 200),
             bollingerUpper |-> BollingerUpper(vals),
             bollingerLower |-> BollingerLower(vals),
             volumeChange |-> RandomVolumeChange(k) ]

MinPoints == 5

calculateTechnicalIndicatorsFromHistorical(feed, k) ==
  LET historical == feed.historical
      vals == Values(historical)
  IN  IF Len(historical) < MinPoints
      THEN DefaultIndicators(feed)
      ELSE [ rsi |-> Rsi(vals),
             macd |-> Macd(vals),
             ma50 |-> MovingAverage(vals, 50),
             ma200 |-> MovingAverage(vals, 200),
             bollingerUpper |-> BollingerUpper(vals),
             bollingerLower |-> BollingerLower(vals),
             volumeChange |-> RandomVolumeChange(k) ]

\* What /fetch_feed_data may answer when it answers: a field that is 0
\* stands for one that is absent or falsy.
FeedDataSet ==
  { [rsi |-> 0, macd |-> "", ma50 |-> 0, ma200 |-> 0,
     bollingerUpper |-> 0, bollingerLower |-> 0, volumeChange |-> Percent(0, 0)],
    [rsi |-> 55, macd |-> "bullish", ma50 |-> 9900, ma200 |-> 9500,
     bollingerUpper |-> 11000, bollingerLower |-> 9000, volumeChange |-> Percent(2, 150)],
    [rsi |-> 250, macd |-> "bearish", ma50 |-> 9900, ma200 |-> 9500,
     bollingerUpper |-> 5000, bollingerLower |-> 0, volumeChange |-> Percent(0, 0)],
    [rsi |-> 0, macd |-> "", ma50 |-> 0, ma200 |-> 0,
     bollingerUpper |-> 0, bollingerLower |-> 12000, volumeChange |-> Percent(0, 0)] }

\* The indicators generateTechnicalIndicators sets from a feed-data answer:
\* each field of the answer when truthy, else a random or default value.
IndicatorsFromFeedData(feed, feedData, s) ==
  [ rsi |-> IF feedData.rsi # 0 THEN feedData.rsi
            ELSE RoundDiv(30 * Draw(s, 1) + 40 * RandDen, RandDen),
    macd |-> IF feedData.macd # "" THEN feedData.macd
             ELSE IF 2 * Draw(s, 2) > RandDen THEN "bullish" ELSE "bearish",
    ma50 |-> IF feedData.ma50 # 0 THEN feedData.ma50
             ELSE (feed.current_value * (190 * RandDen + 20 * Draw(s, 3))) \div (2 * RandDen),
    ma200 |-> IF feedData.ma200 # 0 THEN feedData.ma200
              ELSE feed.current_value * (90 + (20 * Draw(s, 4)) \div RandDen),
    bollingerUpper |-> IF feedData.bollingerUpper # 0 THEN feedData.bollingerUpper
                       ELSE feed.current_value * 105,
    bollingerLower |-> IF feedData.bollingerLower # 0 THEN feedData.bollingerLower
                       ELSE feed.current_value * 95,
    volumeChange |-> IF feedData.volumeChange # Percent(0, 0) THEN feedData.volumeChange
                     ELSE RandomVolumeChange(Draw(s, 5)) ]

NoFeedData == [rsi |-> 0, macd |-> "", ma50 |-> 0, ma200 |-> 0,
               bollingerUpper |-> 0, bollingerLower |-> 0, volumeChange |-> Percent(0, 0)]

\* The state setTechnicalIndicators stores, with where it came from: by the
\* historical calculation, or from the feed-data answer kept beside it.
FromHistorical(feed, k) ==
  [defined |-> TRUE, from |-> "historical", feed |-> feed, feedData |-> NoFeedData,
   value |-> calculateTechnicalIndicatorsFromHistorical(feed, k)]
FromFeedData(feed, feedData, s) ==
  [defined |-> TRUE, from |-> "feedData", feed |-> feed, feedData |-> feedData,
   value |-> IndicatorsFromFeedData(feed, feedData, s)]

\* A number a division produced: a finite one (value in the unit of its
\* use), or NaN or Infinity when the denominator was 0.
Number(v) == [kind |-> "number", value |-> v]
NaN == [kind |-> "NaN", value |-> 0]
Infinity == [kind |-> "Infinity", value |-> 0]
Divide(num, den, scale) ==
  IF den # 0
  THEN Number(IF num >= 0 THEN RoundDiv(num * scale, den) ELSE -RoundDiv((-num) * scale, den))
  ELSE IF num = 0 THEN NaN ELSE Infinity

\* The prices calculateMarketMetricsFromHistorical compares the latest with.
LatestPrice(vals) == vals[Len(vals)]
DayAgoPrice(vals) == IF Len(vals) > 1 THEN vals[Len(vals) - 1] ELSE LatestPrice(vals)
WeekAgoPrice(vals) == IF Len(vals) > 7 THEN vals[Len(vals) - 7] ELSE LatestPrice(vals)
MonthAgoPrice(vals) == IF Len(vals) > 30 THEN vals[Len(vals) - 30] ELSE LatestPrice(vals)

\* ((latestPrice - agoPrice) / agoPrice) * 100, in 1/100 of a percent.
PriceChange(vals, agoPrice) == Divide(LatestPrice(vals) - agoPrice, agoPrice, 10000)

\* returns[i] = (currentValue - prevValue) / prevValue, in 1/1000.
Returns(vals) ==
  [i \in 1..(Len(vals) - 1) |-> Divide(vals[i + 1] - vals[i], vals[i], 1000)]

\* The volatility level from the standard deviation of the returns, in
\* percent: a NaN deviation compares false with both thresholds.
VolatilityLevel(vals) ==
  LET returns == Returns(vals)
      count == Len(returns)
  IN  IF \E i \in 1..count : returns[i].kind # "number" THEN "Low"
      ELSE LET avgReturn == SumSeq([i \in 1..count |-> returns[i].value]) \div count
               squaredDiffs == [i \in 1..count |->
                                  (returns[i].value - avgReturn) * (returns[i].value - avgReturn)]
               stdDev == ISqrt(SumSeq(squaredDiffs) \div count)      \* in 1/10 of a percent
           IN  IF stdDev > 50 THEN "High" ELSE IF stdDev > 20 THEN "Medium" ELSE "Low"

\* The ratios of the calculation whose denominator is 0.
ZeroDenominators(vals) ==
  {r \in {"dayChange", "weekChange", "monthChange", "returns"} :
     CASE r = "dayChange" -> DayAgoPrice(vals) = 0
       [] r = "weekChange" -> WeekAgoPrice(vals) = 0
       [] r = "monthChange" -> MonthAgoPrice(vals) = 0
       [] r = "returns" -> \E i \in 1..(Len(vals) - 1) : vals[i] = 0}

calculateMarketMetricsFromHistorical(feed, k) ==
  LET historical == feed.historical
      vals == Values(historical)
  IN  IF Len(historical) < MinPoints
      THEN [ liquidityScore |-> (1000 * k) \div RandDen,
             volatility |-> Percent(1, 250),
             dayChange |-> Percent(0, 0),
             weekChange |-> Percent(0, 0),
             monthChange |-> Percent(0, 0),
             allTimeHigh |-> feed.current_value * 120,
             allTimeLow |-> feed.current_value * 80,
             zeroDenominators |-> {} ]
      ELSE [ dayChange |-> PriceChange(vals, DayAgoPrice(vals)),
             weekChange |-> PriceChange(vals, WeekAgoPrice(vals)),
             monthChange |-> PriceChange(vals, MonthAgoPrice(vals)),
             volatility |-> VolatilityLevel(vals),
             zeroDenominators |-> ZeroDenominators(vals) ]

\* What setMarketMetrics stores, with which branch computed it and for which
\* feed.
MetricsFromHistorical(feed, k) ==
  [defined |-> TRUE, from |-> "historical", feed |-> feed,
   value |-> calculateMarketMetricsFromHistorical(feed, k)]
MetricsFromFeedData(feed) ==
  [defined |-> TRUE, from |-> "feedData", feed |-> feed]

\* What /query_data_feeds may answer: nothing (the request failed), a status
\* that is not success, or success with or without a feed matching ours.
RealTimeAnswers == {"null", "failure", "noMatch", "match"}

\* The first effect: the feed for selectedAsset (or the first one) is
\* selected; the second effect then starts loadRealData for it.
SelectFeed(feed) ==
  /\ selectedFeed' = feed
  /\ loads' = loads \cup {[stage |-> "realTime", feed |-> feed]}
  /\ UNCHANGED <<technicalIndicators, marketMetrics>>
  /\ UNCHANGED <<submitVars, consensusFetch, serviceVars, displayVars, comparisonVars, analyticsVars, parserVars>>

\* loadRealData after its await: generateTechnicalIndicators and
\* generateMarketMetrics run with the answer.  With a matching feed each
\* starts its own fetchSpecificFeedData; otherwise each calculates from the
\* historical series at once.
RealTimeArrives(load, answer, s) ==
  /\ load \in loads
  /\ load.stage = "realTime"
  /\ IF answer = "match"
     THEN /\ loads' = (loads \ {load})
                        \cup {[stage |-> "indicators", feed |-> load.feed],
                              [stage |-> "metrics", feed |-> load.feed]}
          /\ UNCHANGED <<technicalIndicators, marketMetrics>>
     ELSE /\ loads' = loads \ {load}
          /\ technicalIndicators' = FromHistorical(load.feed, Draw(s, 1))
          /\ marketMetrics' = MetricsFromHistorical(load.feed, Draw(s, 2))
  /\ UNCHANGED selectedFeed
  /\ UNCHANGED <<submitVars, consensusFetch, serviceVars, displayVars, comparisonVars, analyticsVars, parserVars>>

\* The then-callback of generateTechnicalIndicators: fetchSpecificFeedData
\* resolved with an answer.
IndicatorsFeedData(load, feedData, s) ==
  /\ load \in loads
  /\ load.stage = "indicators"
  /\ loads' = loads \ {load}
  /\ technicalIndicators' = FromFeedData(load.feed, feedData, s)
  /\ UNCHANGED <<selectedFeed, marketMetrics>>
  /\ UNCHANGED <<submitVars, consensusFetch, serviceVars, displayVars, comparisonVars, analyticsVars, parserVars>>

\* The same callback when fetchSpecificFeedData resolved with null.
IndicatorsNoFeedData(load, s) ==
  /\ load \in loads
  /\ load.stage = "indicators"
  /\ loads' = loads \ {load}
  /\ technicalIndicators' = FromHistorical(load.feed, Draw(s, 1))
  /\ UNCHANGED <<selectedFeed, marketMetrics>>
  /\ UNCHANGED <<submitVars, consensusFetch, serviceVars, displayVars, comparisonVars, analyticsVars, parserVars>>

\* The then-callback of generateMarketMetrics.
MetricsFeedData(load, hasData, s) ==
  /\ load \in loads
  /\ load.stage = "metrics"
  /\ loads' = loads \ {load}
  /\ marketMetrics' = IF hasData THEN MetricsFromFeedData(load.feed)
                      ELSE MetricsFromHistorical(load.feed, Draw(s, 1))
  /\ UNCHANGED <<selectedFeed, technicalIndicators>>
  /\ UNCHANGED <<submitVars, consensusFetch, serviceVars, displayVars, comparisonVars, analyticsVars, parserVars>>

\* MarketAnalytics mounted with one feed, which stays selected.
NextMarket ==
  \/ \E feed \in MarketFeeds : ~selectedFeed.defined /\ SelectFeed(feed)
  \/ \E load \in loads : \E answer \in RealTimeAnswers : \E s \in RandomStreams :
       RealTimeArrives(load, answer, s)
  \/ \E load \in loads : \E feedData \in FeedDataSet : \E s \in RandomStreams :
       IndicatorsFeedData(load, feedData, s)
  \/ \E load \in loads : \E s \in RandomStreams : IndicatorsNoFeedData(load, s)
  \/ \E load \in loads : \E hasData \in BOOLEAN : \E s \in RandomStreams :
       MetricsFeedData(load, hasData, s)

\* The dataFeeds prop of a prediction about two assets.
PropDataFeeds ==
  << [defined |-> TRUE, name |-> "Litecoin", feed_id |-> "litecoin",
      current_value |-> 100, historical |-> [i \in 1..6 |-> i]],
     [defined |-> TRUE, name |-> "Xrp", feed_id |-> "xrp",
      current_value |-> 100, historical |-> [i \in 1..6 |-> 5]] >>

\* The selectedAsset prop: undefined (""), or an asset name.
SelectedAssets == {"", "Litecoin", "XRP", "Solana"}

\* The first effect's choice: the feed whose name or feed_id is selectedAsset
\* in lower case, else the first feed.
FeedForAsset(dataFeeds, selectedAsset) ==
  LET matches == {i \in 1..Len(dataFeeds) :
                    \/ toLowerCase(dataFeeds[i].name) = toLowerCase(selectedAsset)
                    \/ toLowerCase(dataFeeds[i].feed_id) = toLowerCase(selectedAsset)}
  IN  IF selectedAsset # "" /\ matches # {}
      THEN dataFeeds[CHOOSE i \in matches : \A j \in matches : i <= j]
      ELSE dataFeeds[1]

\* The selectedAsset prop changes: the first effect selects a feed, and when
\* that is another feed than before the second effect starts its loadRealData.
SelectAsset(selectedAsset) ==
  /\ FeedForAsset(PropDataFeeds, selectedAsset) # selectedFeed
  /\ SelectFeed(FeedForAsset(PropDataFeeds, selectedAsset))

\* MarketAnalytics whose selectedAsset prop changes while it is mounted.
NextMarketSwitch ==
  \/ \E selectedAsset \in SelectedAssets : SelectAsset(selectedAsset)
  \/ \E load \in loads : \E answer \in RealTimeAnswers : \E s \in RandomStreams :
       RealTimeArrives(load, answer, s)
  \/ \E load \in loads : \E feedData \in FeedDataSet : \E s \in RandomStreams :
       IndicatorsFeedData(load, feedData, s)
  \/ \E load \in loads : \E s \in RandomStreams : IndicatorsNoFeedData(load, s)
  \/ \E load \in loads : \E hasData \in BOOLEAN : \E s \in RandomStreams :
       MetricsFeedData(load, hasData, s)

----------------------------------------------------------------------------
(* DataFeedDisplay: the feed list, its selection and its refresh timer.     *)
(* A feed object is known by its id; selectedInFeeds tells whether the      *)
(* selected object is an element of the current feeds array (every fetch    *)
(* answers with newly built objects).  A timer id of NoTimer is null.       *)

NoSelection == "none"
NoTimer == 0

MockFeedIds ==
  <<"ftso-xrp-usd", "ftso-flr-usd", "ftso-ltc-usd", "ftso-btc-usd", "ftso-eth-usd">>

\* What the feeds endpoint answers when the request succeeds.
ServerFeedLists == {<<>>, <<"ftso-btc-usd", "ftso-eth-usd">>}

\* The rows whose View button the model presses.
ViewChoices == {"ftso-btc-usd", "ftso-eth-usd", "ftso-xrp-usd"}

RefreshIntervals == {5000, 60000}

DefaultRefreshInterval == 60000

MaxInFlight == 2

\* ftsoApi.getAllFeeds: the response's list, or the built-in list when the
\* request fails.
getAllFeedsData(net, response) ==
  IF net = "ok" THEN response ELSE MockFeedIds

FeedAnswers == {getAllFeedsData("ok", r) : r \in ServerFeedLists}
                 \cup {getAllFeedsData("fail", <<>>)}

Elements(seq) == {seq[i] : i \in DOMAIN seq}

Closures == {NoSelection} \cup Elements(MockFeedIds)

RECURSIVE CountFetches(_)
CountFetches(S) ==
  IF S = {} THEN 0
  ELSE LET c == CHOOSE x \in S : TRUE IN fetches[c] + CountFetches(S \ {c})

\* The fetchFeeds calls awaiting their answer.
InFlight == CountFetches(Closures)

TimerIds == {t.id : t \in timers}

\* setInterval: an id no live reference holds.
NewTimerId ==
  CHOOSE n \in 1..(Cardinality(timers) + 3) :
    /\ n \notin TimerIds \cup {dataFeedDisplay.intervalId, effect.cleanupId}
    /\ \A m \in 1..(n - 1) :
         m \in TimerIds \cup {dataFeedDisplay.intervalId, effect.cleanupId}

clearInterval(ts, id) == {t \in ts : t.id # id}

setInterval(ts, id, closure, period) ==
  ts \cup {[id |-> id, period |-> period, closure |-> closure]}

\* The first part of fetchFeeds, up to the await: the call is in flight with
\* the selectedFeed its callback closed over.
fetchFeedsStarts(closure) ==
  [fetches EXCEPT ![closure] = @ + 1]

\* The effect with dependencies [fetchFeeds, refreshInterval, autoRefresh]:
\* the previous run's cleanup with the intervalId of its render, then
\* fetchFeeds() and, if autoRefresh, a new timer.
RunEffect ==
  /\ effect.pending
  /\ LET d == dataFeedDisplay
         cleared == IF effect.cleanupId # NoTimer
                    THEN clearInterval(timers, effect.cleanupId) ELSE timers
         afterCleanup == IF effect.cleanupId # NoTimer THEN NoTimer ELSE d.intervalId
         id == NewTimerId
     IN /\ fetches' = fetchFeedsStarts(d.selectedFeed)
        /\ IF d.autoRefresh
           THEN /\ timers' = setInterval(cleared, id, d.selectedFeed, d.refreshInterval)
                /\ dataFeedDisplay' = [d EXCEPT !.isLoading = TRUE, !.intervalId = id]
           ELSE /\ timers' = cleared
                /\ dataFeedDisplay' = [d EXCEPT !.isLoading = TRUE,
                                                !.intervalId = afterCleanup]
        /\ effect' = [pending |-> FALSE, cleanupId |-> d.intervalId]
  /\ UNCHANGED displayEvents
  /\ UNCHANGED <<submitVars, consensusFetch, serviceVars, marketVars, comparisonVars, analyticsVars, parserVars>>

\* The rest of fetchFeeds, after the await: data replaces feeds, and the
\* selection is set from the closure's selectedFeed.
FetchCompletes(closure, data) ==
  /\ ~effect.pending
  /\ fetches[closure] > 0
  /\ fetches' = [fetches EXCEPT ![closure] = @ - 1]
  /\ LET d == dataFeedDisplay
         selects == \/ closure = NoSelection /\ Len(data) > 0
                    \/ closure # NoSelection /\ closure \in Elements(data)
         selected == IF closure = NoSelection THEN data[1] ELSE closure
     IN /\ dataFeedDisplay' =
             [d EXCEPT !.feeds = data,
                       !.isLoading = FALSE,
                       !.selectedFeed = IF selects THEN selected ELSE @,
                       !.selectedInFeeds = selects]
        /\ effect' = [effect EXCEPT !.pending = selects]
  /\ displayEvents' = [displayEvents EXCEPT !.last = "complete"]
  /\ UNCHANGED timers
  /\ UNCHANGED <<submitVars, consensusFetch, serviceVars, marketVars, comparisonVars, analyticsVars, parserVars>>

\* A refresh timer fires: the fetchFeeds it was created with runs.
TimerFires(t) ==
  /\ ~effect.pending
  /\ t \in timers
  /\ InFlight < MaxInFlight
  /\ fetches' = fetchFeedsStarts(t.closure)
  /\ dataFeedDisplay' = [dataFeedDisplay EXCEPT !.isLoading = TRUE]
  /\ displayEvents' = [displayEvents EXCEPT !.last = "timer"]
  /\ UNCHANGED <<timers, effect>>
  /\ UNCHANGED <<submitVars, consensusFetch, serviceVars, marketVars, comparisonVars, analyticsVars, parserVars>>

toggleAutoRefresh ==
  /\ ~effect.pending
  /\ InFlight < MaxInFlight
  /\ LET d == dataFeedDisplay
         id == NewTimerId
     IN IF d.autoRefresh
        THEN /\ timers' = IF d.intervalId # NoTimer
                          THEN clearInterval(timers, d.intervalId) ELSE timers
             /\ dataFeedDisplay' = [d EXCEPT !.intervalId = NoTimer,
                                             !.autoRefresh = FALSE]
        ELSE /\ timers' = setInterval(timers, id, d.selectedFeed, d.refreshInterval)
             /\ dataFeedDisplay' = [d EXCEPT !.intervalId = id,
                                             !.autoRefresh = TRUE]
  /\ effect' = [effect EXCEPT !.pending = TRUE]
  /\ displayEvents' = [displayEvents EXCEPT !.last = "toggle"]
  /\ UNCHANGED fetches
  /\ UNCHANGED <<submitVars, consensusFetch, serviceVars, marketVars, comparisonVars, analyticsVars, parserVars>>

\* The interval menu is enabled only while autoRefresh is on.
handleRefreshIntervalChange(newInterval) ==
  /\ ~effect.pending
  /\ InFlight < MaxInFlight
  /\ dataFeedDisplay.autoRefresh
  /\ newInterval # dataFeedDisplay.refreshInterval
  /\ LET d == dataFeedDisplay
         id == NewTimerId
     IN IF d.autoRefresh /\ d.intervalId # NoTimer
        THEN /\ timers' = setInterval(clearInterval(timers, d.intervalId),
                                      id, d.selectedFeed, newInterval)
             /\ dataFeedDisplay' = [d EXCEPT !.refreshInterval = newInterval,
                                             !.intervalId = id]
        ELSE /\ timers' = timers
             /\ dataFeedDisplay' = [d EXCEPT !.refreshInterval = newInterval]
  /\ effect' = [effect EXCEPT !.pending = TRUE]
  /\ displayEvents' = [displayEvents EXCEPT !.last = "interval"]
  /\ UNCHANGED fetches
  /\ UNCHANGED <<submitVars, consensusFetch, serviceVars, marketVars, comparisonVars, analyticsVars, parserVars>>

handleManualRefresh ==
  /\ ~effect.pending
  /\ InFlight < MaxInFlight
  /\ fetches' = fetchFeedsStarts(dataFeedDisplay.selectedFeed)
  /\ dataFeedDisplay' = [dataFeedDisplay EXCEPT !.isLoading = TRUE]
  /\ displayEvents' = [displayEvents EXCEPT !.last = "refresh"]
  /\ UNCHANGED <<timers, effect>>
  /\ UNCHANGED <<submitVars, consensusFetch, serviceVars, marketVars, comparisonVars, analyticsVars, parserVars>>

\* The View button of a listed row: setSelectedFeed(feed).  The state, and
\* so fetchFeeds, changes unless that very object is already selected.
View(feed) ==
  /\ ~effect.pending
  /\ InFlight < MaxInFlight
  /\ feed \in Elements(dataFeedDisplay.feeds)
  /\ LET d == dataFeedDisplay
         same == d.selectedFeed = feed /\ d.selectedInFeeds
     IN /\ dataFeedDisplay' = [d EXCEPT !.selectedFeed = feed,
                                        !.selectedInFeeds = TRUE]
        /\ effect' = [effect EXCEPT !.pending = @ \/ ~same]
  /\ displayEvents' = [last |-> "view", viewed |-> feed]
  /\ UNCHANGED <<timers, fetches>>
  /\ UNCHANGED <<submitVars, consensusFetch, serviceVars, marketVars, comparisonVars, analyticsVars, parserVars>>

NextDisplay ==
  \/ RunEffect
  \/ \E closure \in Closures : \E data \in FeedAnswers : FetchCompletes(closure, data)
  \/ \E t \in timers : TimerFires(t)
  \/ toggleAutoRefresh
  \/ \E newInterval \in RefreshIntervals : handleRefreshIntervalChange(newInterval)
  \/ handleManualRefresh
  \/ \E feed \in ViewChoices : View(feed)

----------------------------------------------------------------------------
(* ModelComparison: the two model menus and the error toast.  Time is in    *)
(* seconds; a timeout is the time at which its callback runs.               *)

AVAILABLE_MODELS == {"regression", "confidence", "singular"}

\* setTimeout(..., 3000)
ErrorMessageSeconds == 3

MaxTime == 6

NoErrorMessage == [shown |-> FALSE, raisedAt |-> 0]

IsDuplicateSelection_Never(value, other) == FALSE

\* value === model2 in handleModel1Change, value === model1 in handleModel2Change
IsDuplicateSelection(value, other) == value = other

\* The rejection branch of both handlers: the message and its timeout.
RejectSelection ==
  /\ now + ErrorMessageSeconds <= MaxTime
  /\ errorMessage' = [shown |-> TRUE, raisedAt |-> now]
  /\ timeouts' = timeouts \cup {now + ErrorMessageSeconds}
  /\ UNCHANGED <<model1, model2>>

handleModel1Change(value) ==
  /\ IF IsDuplicateSelection(value, model2)
     THEN RejectSelection
     ELSE /\ model1' = value
          /\ UNCHANGED <<model2, errorMessage, timeouts>>
  /\ UNCHANGED now
  /\ UNCHANGED <<submitVars, consensusFetch, serviceVars, marketVars, displayVars, analyticsVars, parserVars>>

handleModel2Change(value) ==
  /\ IF IsDuplicateSelection(value, model1)
     THEN RejectSelection
     ELSE /\ model2' = value
          /\ UNCHANGED <<model1, errorMessage, timeouts>>
  /\ UNCHANGED now
  /\ UNCHANGED <<submitVars, consensusFetch, serviceVars, marketVars, displayVars, analyticsVars, parserVars>>

\* A timeout's callback: setErrorMessage(null).
ErrorTimeoutFires(deadline) ==
  /\ deadline \in timeouts
  /\ deadline <= now
  /\ errorMessage' = [errorMessage EXCEPT !.shown = FALSE]
  /\ timeouts' = timeouts \ {deadline}
  /\ UNCHANGED <<model1, model2, now>>
  /\ UNCHANGED <<submitVars, consensusFetch, serviceVars, marketVars, displayVars, analyticsVars, parserVars>>

\* A second passes; a timeout that is due runs first.
Tick ==
  /\ now < MaxTime
  /\ \A deadline \in timeouts : deadline > now
  /\ now' = now + 1
  /\ UNCHANGED <<model1, model2, errorMessage, timeouts>>
  /\ UNCHANGED <<submitVars, consensusFetch, serviceVars, marketVars, displayVars, analyticsVars, parserVars>>

NextComparison ==
  \/ \E value \in AVAILABLE_MODELS : handleModel1Change(value)
  \/ \E value \in AVAILABLE_MODELS : handleModel2Change(value)
  \/ \E deadline \in timeouts : ErrorTimeoutFires(deadline)
  \/ Tick

----------------------------------------------------------------------------
(* ConsensusAnalytics: the consensus data shown for the predictionData prop *)

NoConsensusData == [consensus_id |-> ""]

NoProp == [consensusData |-> NoConsensusData, marketId |-> ""]

\* The consensusData a prop can carry.
PropConsensusData ==
  [ consensus_id |-> "prop-1",
    consensus_value |-> 500,
    participant_count |-> 3,
    details |-> [ values |-> <<4, 5, 6>>, weights |-> <<40, 30, 30>> ] ]

\* The predictionData props: with consensusData, with only a marketId (one
\* the lists hold, one they do not), with both, with neither.
AnalyticsProps ==
  { [consensusData |-> PropConsensusData, marketId |-> ""],
    [consensusData |-> PropConsensusData, marketId |-> "cons-2"],
    [consensusData |-> NoConsensusData, marketId |-> "cons-2"],
    [consensusData |-> NoConsensusData, marketId |-> "market-7"],
    NoProp }

MaxRequests == 2

\* data.find(item => item.consensus_id === predictionData.marketId) || data[0]
MarketDataOf(data, marketId) ==
  LET found == {i \in 1..Len(data) : data[i].consensus_id = marketId}
  IN  IF found # {} THEN data[CHOOSE i \in found : \A j \in found : i <= j]
      ELSE data[1]

\* The predictionData prop changes and the effect runs: consensusData of the
\* prop is stored, or else a getConsensusData call starts for its marketId.
PropChanges(prop) ==
  /\ prop # consensusAnalytics.predictionData
  /\ LET c == consensusAnalytics IN
     IF prop.consensusData # NoConsensusData
     THEN consensusAnalytics' = [c EXCEPT !.predictionData = prop,
                                          !.consensusData = prop.consensusData]
     ELSE IF prop.marketId # ""
     THEN /\ Len(c.requests) < MaxRequests
          /\ consensusAnalytics' = [c EXCEPT !.predictionData = prop,
                                             !.loading = TRUE,
                                             !.requests = Append(@, prop.marketId)]
     ELSE consensusAnalytics' = [c EXCEPT !.predictionData = prop]
  /\ UNCHANGED <<submitVars, consensusFetch, serviceVars, marketVars, displayVars,
                 comparisonVars, parserVars>>

\* A getConsensusData call resolves with data and its then-callback runs
\* with the marketId of the prop it was started for.
ConsensusDataArrives(i, data) ==
  /\ i \in 1..Len(consensusAnalytics.requests)
  /\ LET c == consensusAnalytics IN
     consensusAnalytics' =
       [c EXCEPT !.consensusData = MarketDataOf(data, c.requests[i]),
                 !.loading = FALSE,
                 !.requests = RemoveAt(@, i)]
  /\ UNCHANGED <<submitVars, consensusFetch, serviceVars, marketVars, displayVars,
                 comparisonVars, parserVars>>

NextAnalytics ==
  \/ \E prop \in AnalyticsProps : PropChanges(prop)
  \/ \E i \in 1..Len(consensusAnalytics.requests) :
       \E data \in ServerConsensusData \cup {MockConsensusData} :
         ConsensusDataArrives(i, data)

----------------------------------------------------------------------------
(* Initial state and the submission specification *)

NoFeedSelected == [defined |-> FALSE]
NoIndicators == [defined |-> FALSE]
NoMetrics == [defined |-> FALSE]

Init ==
  /\ predictionData = NoPrediction
  /\ isPredictionLoading = FALSE
  /\ analysisStatus = ""
  /\ inflight = <<>>
  /\ overlapped = NoOverlap
  /\ consensusFetch = [st |-> "idle", fallback |-> FALSE, data |-> <<>>]
  /\ calls = [f \in Services |-> Idle @@ [net |-> "none"]]
  /\ callCount = 0
  /\ selectedFeed = NoFeedSelected
  /\ technicalIndicators = NoIndicators
  /\ marketMetrics = NoMetrics
  /\ loads = {}
  /\ dataFeedDisplay = [feeds |-> <<>>, isLoading |-> TRUE,
                        selectedFeed |-> NoSelection, selectedInFeeds |-> FALSE,
                        refreshInterval |-> DefaultRefreshInterval,
                        autoRefresh |-> TRUE, intervalId |-> NoTimer]
  /\ timers = {}
  /\ fetches = [c \in Closures |-> 0]
  /\ effect = [pending |-> TRUE, cleanupId |-> NoTimer]
  /\ displayEvents = [last |-> "mount", viewed |-> NoSelection]
  /\ model1 = "regression"
  /\ model2 = "confidence"
  /\ errorMessage = NoErrorMessage
  /\ timeouts = {}
  /\ now = 0
  /\ consensusAnalytics = [predictionData |-> NoProp,
                           consensusData |-> NoConsensusData,
                           loading |-> FALSE, error |-> "",
                           requests |-> <<>>]
  /\ parsed = [query |-> <<>>, pieces |-> 0, assets |-> <<>>]

\* One submission at a time, and the consensus data service beside it.
NextSubmit ==
  \/ \E q \in Questions : inflight = <<>> /\ Submit(q)
  \/ \E i \in 1..Len(inflight) :
       \E s \in RandomStreams :
         \E net \in NetScenarios(IF Len(inflight[i].assets) > 0
                                 THEN Len(inflight[i].assets) ELSE Len(DefaultAssets)) :
           SubmitResolve(i, net, s)
  \/ \E i \in 1..Len(inflight) : \E error \in ThrownValues : SubmitThrows(i, error)
  \/ GetConsensusData
  \/ \E data \in ServerConsensusData : ConsensusDataOk(data)
  \/ ConsensusDataFail

SpecSubmit == Init /\ [][NextSubmit]_vars

\* Price questions about every asset, one call at a time, with the lowest
\* draws or with mixed ones.
PrimaryAssetStreams == {<<0, 0, 0>>, <<RandDen - 1, 0, 10>>}

NextPrimaryAsset ==
  \/ \E q \in AssetQuestions : inflight = <<>> /\ Submit(q)
  \/ \E s \in PrimaryAssetStreams :
       \E net \in NetScenarios(IF inflight # <<>> /\ Len(inflight[1].assets) > 0
                               THEN Len(inflight[1].assets) ELSE Len(DefaultAssets)) :
         SubmitResolve(1, net, s)

SpecPrimaryAsset == Init /\ [][NextPrimaryAsset]_vars

\* The try block throws, or the awaited market data arrives.
SubmitSettles ==
  \/ \E i \in 1..Len(inflight) : \E error \in ThrownValues : SubmitThrows(i, error)
  \/ \E i \in 1..Len(inflight) :
       \E s \in RandomStreams :
         \E net \in NetScenarios(IF Len(inflight[i].assets) > 0
                                 THEN Len(inflight[i].assets) ELSE Len(DefaultAssets)) :
           SubmitResolve(i, net, s)

\* The submission handler alone; the call it awaits settles.
NextHandler ==
  \/ \E q \in Questions : inflight = <<>> /\ Submit(q)
  \/ SubmitSettles

SpecSubmitFair == Init /\ [][NextHandler]_vars /\ WF_vars(SubmitSettles)

MaxSubmissions == 2

\* The form stays enabled while a call is in progress: calls can overlap.
NextOverlap ==
  \/ \E q \in Questions : Len(inflight) < MaxSubmissions /\ Submit(q)
  \/ SubmitSettles

SpecOverlap == Init /\ [][NextOverlap]_vars

SpecServices == Init /\ [][NextServices]_vars

SpecMarket == Init /\ [][NextMarket]_vars

SpecParser == Init /\ [][NextParser]_vars

SpecAnalytics == Init /\ [][NextAnalytics]_vars

SpecMarketSwitch == Init /\ [][NextMarketSwitch]_vars

SpecDisplay == Init /\ [][NextDisplay]_vars

SpecComparison == Init /\ [][NextComparison]_vars

\* A pending effect is run, and a request in flight is answered.
SpecDisplayFair ==
  /\ SpecDisplay
  /\ WF_vars(RunEffect)
  /\ WF_vars(\E closure \in Closures : \E data \in FeedAnswers :
                FetchCompletes(closure, data))

----------------------------------------------------------------------------
(* The statistical summary PredictionMarket renders from price_prediction *)

\* (confidence * 100).toFixed(1) + "%": the percentage shown, in tenths.
formatConfidence(confidence) == RoundDiv(confidence * 1000, ConfUnit)

RECURSIVE SumOver(_, _)
SumOver(f, S) ==
  IF S = {} THEN 0
  ELSE LET x == CHOOSE y \in S : TRUE IN f[x] + SumOver(f, S \ {x})

\* Mean: the sum of the model predictions over Math.max(1, their number).
MeanShown(pp) ==
  RoundDiv(SumOver(pp.model_predictions, DOMAIN pp.model_predictions),
           Max(1, Cardinality(DOMAIN pp.model_predictions)))

\* Standard Deviation: Math.sqrt of the mean of (val - predicted_price)^2.
StandardDeviationShown(pp) ==
  LET vals == pp.model_predictions
      sq == [m \in DOMAIN vals |-> (vals[m] - pp.predicted_price) * (vals[m] - pp.predicted_price)]
  IN  ISqrt(SumOver(sq, DOMAIN vals) \div Max(1, Cardinality(DOMAIN vals)))

----------------------------------------------------------------------------
(* Claims *)

PD == predictionData
PP == predictionData.verificationResult.price_prediction
HasPricePrediction == predictionData.defined /\ PP.defined
Responses == predictionData.verificationResult.verification.model_responses
PrimaryFeed ==
  FindFeed(PD.dataFeeds,
           IF Len(PD.processedQuery.identified_assets) > 0
           THEN PD.processedQuery.identified_assets[1] ELSE "Bitcoin")

\* The mean of vals weighted by w, rounded to the cent.
WeightedMean(vals, w) ==
  LET prod == [m \in DOMAIN vals |-> vals[m] * w[m]]
  IN  RoundDiv(SumOver(prod, DOMAIN vals), SumOver(w, DOMAIN vals))

RECURSIVE DotProduct(_, _)
DotProduct(a, b) ==
  IF a = <<>> THEN 0 ELSE Head(a) * Head(b) + DotProduct(Tail(a), Tail(b))

\* C1 (as claimed): predicted_price is, to the cent, the mean of the values
\* in model_predictions weighted by the models' confidences, and every record
\* of the getConsensusData fallback has consensus_value equal to the sum of
\* details.values[i] * details.weights[i].
C1_ConsensusIsWeightedMean ==
  /\ HasPricePrediction =>
       Abs(PP.predicted_price
             - WeightedMean(PP.model_predictions,
                            [m \in Models |-> Responses[m].confidence])) <= 1
  /\ (consensusFetch.st = "resolved" /\ consensusFetch.fallback) =>
       \A i \in 1..Len(consensusFetch.data) :
         consensusFetch.data[i].consensus_value
           = DotProduct(consensusFetch.data[i].details.values,
                        consensusFetch.data[i].details.weights)

Rank(label) ==
  CASE label = "HIGHLY LIKELY" -> 6 [] label = "LIKELY" -> 5
    [] label = "SOMEWHAT LIKELY" -> 4 [] label = "UNCERTAIN" -> 3
    [] label = "SOMEWHAT UNLIKELY" -> 2 [] label = "UNLIKELY" -> 1
    [] OTHER -> 0

\* Five times the mean of the per-model confidences of a stored result.
ConfidenceSum(pd) ==
  SumOver([m \in Models |-> pd.verificationResult.verification.model_responses[m].confidence],
          Models)

\* C2 (as claimed): between any stored result and the next one, an equal mean
\* model confidence gives the same final_decision and a higher mean never
\* gives a less likely label.
C2_DecisionByMeanConfidence ==
  [][(predictionData.defined /\ predictionData'.defined) =>
       /\ ConfidenceSum(predictionData) = ConfidenceSum(predictionData') =>
            predictionData.verificationResult.final_decision
              = predictionData'.verificationResult.final_decision
       /\ ConfidenceSum(predictionData) < ConfidenceSum(predictionData') =>
            Rank(predictionData.verificationResult.final_decision)
              <= Rank(predictionData'.verificationResult.final_decision)
       /\ ConfidenceSum(predictionData) > ConfidenceSum(predictionData') =>
            Rank(predictionData.verificationResult.final_decision)
              >= Rank(predictionData'.verificationResult.final_decision)]_vars

\* C2 (amended): final_decision is chosen by fixed rules on the primary
\* feed's trend and the question type: LIKELY or HIGHLY LIKELY for a price
\* question on a rising feed, UNLIKELY or SOMEWHAT LIKELY for a price question
\* on a falling feed, and otherwise one of LIKELY, SOMEWHAT LIKELY, UNCERTAIN,
\* UNLIKELY, HIGHLY LIKELY (never SOMEWHAT UNLIKELY).
C2_DecisionByTrendAndQuestion ==
  predictionData.defined =>
    LET d == PD.verificationResult.final_decision
        price == PD.processedQuery.question_type = "price_prediction"
    IN  /\ (PrimaryFeed.trend = "up" /\ price) => d \in {"LIKELY", "HIGHLY LIKELY"}
        /\ (PrimaryFeed.trend = "down" /\ price) => d \in {"UNLIKELY", "SOMEWHAT LIKELY"}
        /\ d \in {"LIKELY", "SOMEWHAT LIKELY", "UNCERTAIN", "UNLIKELY", "HIGHLY LIKELY"}

C2_Witness ==
  /\ predictionData.defined
  /\ PD.processedQuery.question_type = "price_prediction"
  /\ PrimaryFeed.trend = "down"
  /\ PD.verificationResult.final_decision = "SOMEWHAT LIKELY"

\* C3: in every stored result the final decision, every model response's
\* decision and every model comparison prediction is one of the six labels.
C3_LabelsInFixedSet ==
  predictionData.defined =>
    /\ PD.verificationResult.final_decision \in Labels
    /\ \A m \in Models : Responses[m].decision \in Labels
    /\ \A i \in 1..Len(PD.modelComparison) : PD.modelComparison[i].prediction \in Labels

C3_Witness ==
  /\ predictionData.defined
  /\ PD.verificationResult.final_decision = "UNLIKELY"
  /\ Responses["Mistral Small 3"].decision = "SOMEWHAT LIKELY"
  /\ Responses["Gemini Flash Lite 2.0"].decision = "UNCERTAIN"
  /\ PD.modelComparison[2].prediction = "SOMEWHAT UNLIKELY"

\* C4 (as claimed): every per-model confidence of a stored result is in
\* [0,1], so formatConfidence shows it between 0% and 100%.
C4_ConfidencesInUnitInterval ==
  predictionData.defined =>
    /\ \A m \in Models :
         /\ Responses[m].confidence >= 0 /\ Responses[m].confidence <= ConfUnit
         /\ formatConfidence(Responses[m].confidence) \in 0..1000
    /\ \A i \in 1..Len(PD.modelComparison) :
         /\ PD.modelComparison[i].confidence >= 0
         /\ PD.modelComparison[i].confidence <= ConfUnit
         /\ formatConfidence(PD.modelComparison[i].confidence) \in 0..1000

\* The population standard deviation of the model predictions about their
\* own arithmetic mean, truncated like StandardDeviationShown.
PopulationStdDev(pp) ==
  LET vals == pp.model_predictions
      mean == MeanShown(pp)
      sq == [m \in DOMAIN vals |-> (vals[m] - mean) * (vals[m] - mean)]
  IN  ISqrt(SumOver(sq, DOMAIN vals) \div Cardinality(DOMAIN vals))

\* C10 (as claimed): the Standard Deviation shown is, to the cent, the
\* population standard deviation of the model predictions about their mean.
C10_StdDevAboutMean ==
  HasPricePrediction => Abs(StandardDeviationShown(PP) - PopulationStdDev(PP)) <= 1

\* The services whose catch block throws the error again.
Rethrowing == {"predictionService.getMarketDataFeeds", "analyzePrediction",
               "getModelComparison"}
Failed(f) == calls[f].settled \in {"fulfilled", "rejected"} /\ calls[f].net # "ok"

\* C5 (as claimed): no call is rejected, and a call whose request failed or
\* got a non-OK status is fulfilled with placeholder data.
C5_NoRejection ==
  /\ \A f \in Services :
       /\ calls[f].settled # "rejected"
       /\ Failed(f) => calls[f].value = "placeholder"
  /\ (consensusFetch.st = "resolved" /\ consensusFetch.fallback) =>
       consensusFetch.data = MockConsensusData

\* C5 (amended): when the request fails or gets a non-OK status,
\* ftsoApi.getAllFeeds, modelComparisonApi.getAllModels, getConsensusData,
\* getTokenPrice, getHistoricalPrices and the market-data getMarketDataFeeds
\* resolve with placeholder data and ftsoApi.getFeedById resolves with null,
\* while analyzePrediction, getModelComparison and the prediction service's
\* getMarketDataFeeds reject with the error.
C5_FailureHandling ==
  /\ \A f \in Services :
       /\ Failed(f) =>
            IF f \in Rethrowing THEN calls[f].settled = "rejected"
            ELSE IF f = "ftsoApi.getFeedById"
            THEN calls[f].settled = "fulfilled" /\ calls[f].value = "null"
            ELSE calls[f].settled = "fulfilled" /\ calls[f].value = "placeholder"
       /\ (calls[f].settled \in {"fulfilled", "rejected"} /\ calls[f].net = "ok") =>
            calls[f].settled = "fulfilled" /\ calls[f].value = "response"
  /\ (consensusFetch.st = "resolved" /\ consensusFetch.fallback) =>
       consensusFetch.data = MockConsensusData

C5_Witness ==
  /\ calls["ftsoApi.getAllFeeds"].net = "status"
  /\ calls["ftsoApi.getAllFeeds"].value = "placeholder"
  /\ calls["analyzePrediction"].net = "error"
  /\ calls["analyzePrediction"].settled = "rejected"
  /\ consensusFetch.st = "resolved" /\ consensusFetch.fallback

TI == technicalIndicators

\* The fixed neutral defaults for a feed, in 1/100.
NeutralDefaults(feed) ==
  [ rsi |-> 50, macd |-> "neutral",
    ma50 |-> 100 * feed.current_value, ma200 |-> 100 * feed.current_value,
    bollingerUpper |-> 105 * feed.current_value,
    bollingerLower |-> 95 * feed.current_value,
    volumeChange |-> Percent(0, 0) ]

C7_RsiInRange == TI.defined => TI.value.rsi \in 0..100

\* C7 (amended): the rsi calculated from a historical series is in [0,100],
\* for every series; the rsi set from a feed-data answer is the answer's rsi
\* as received when that is truthy, in the range or not, and else a random
\* integer in 40..70.
C7_RsiInRangeOnHistoricalPath ==
  TI.defined =>
    /\ TI.from = "historical" => TI.value.rsi \in 0..100
    /\ (TI.from = "feedData" /\ TI.feedData.rsi # 0) => TI.value.rsi = TI.feedData.rsi
    /\ (TI.from = "feedData" /\ TI.feedData.rsi = 0) => TI.value.rsi \in 40..70

C7_Witness ==
  /\ TI.defined /\ TI.from = "historical"
  /\ Len(TI.feed.historical) >= 5
  /\ TI.value.rsi >= 99

\* The arithmetic mean of the last min(k, n) values, in 1/100.
MeanOfLast(vals, k) ==
  LET c == Min(k, Len(vals))
  IN  (100 * SumSeq(SubSeq(vals, Len(vals) - c + 1, Len(vals)))) \div c

\* The mean the bands are claimed to enclose.
ClaimedMean ==
  IF TI.from = "historical" /\ Len(TI.feed.historical) >= 5
  THEN MeanOfLast(Values(TI.feed.historical), 20)
  ELSE 100 * TI.feed.current_value

C9_MacdComparesMeans ==
  (TI.defined /\ TI.from = "historical" /\ Len(TI.feed.historical) >= 5) =>
    LET vals == Values(TI.feed.historical)
        n == Len(vals)
        \* the two means over a common denominator
        short == SumSeq(LastN(vals, 12)) * Min(26, n)
        long == SumSeq(LastN(vals, 26)) * Min(12, n)
    IN  /\ TI.value.macd = "bullish" <=> short > long
        /\ TI.value.macd = "bearish" <=> short < long
        /\ TI.value.macd = "neutral" <=> short = long

IsPrefix(a, b) == Len(a) <= Len(b) /\ SubSeq(b, 1, Len(a)) = a

\* The feeds of a stored result, as a set.
FeedsOf(pd) == {pd.dataFeeds[i] : i \in 1..Len(pd.dataFeeds)}

\* C11 (as claimed): from one stored result to the next, the historical
\* series of an asset that is in both is a prefix of the later one.
C11_SeriesAppendOnly ==
  [][(predictionData.defined /\ predictionData'.defined) =>
       \A f \in FeedsOf(predictionData) : \A g \in FeedsOf(predictionData') :
         f.feed_id = g.feed_id => IsPrefix(f.historical, g.historical)]_vars

\* C11 (amended): every submission stores, for each asset, the series
\* getHistoricalPrices returned for that submission: the list the history
\* request answered with, or after a failed request a newly generated random
\* series of days + 1 = 15 points within 0.97 to 1.14 times the token's base
\* price; the series stored before is replaced, not
\* extended, and it changes only when a submission completes.
C11_SeriesReplacedBySubmission ==
  /\ [][predictionData' # predictionData =>
          /\ inflight # <<>> /\ Len(inflight') = Len(inflight) - 1
          /\ predictionData'.defined]_vars
  /\ [](predictionData.defined =>
          \A f \in FeedsOf(predictionData) :
            \/ f.historical \in FetchedSeries
            \/ /\ Len(f.historical) = MockDays + 1
               /\ \A j \in 1..Len(f.historical) :
                    /\ 100 * (f.historical[j] + 1) >= 97 * getBasePrice(f.feed_id)
                    /\ 100 * f.historical[j] <= 114 * getBasePrice(f.feed_id))

C11_Witness ==
  /\ predictionData.defined
  /\ \E f \in FeedsOf(predictionData) :
       /\ f.feed_id = "litecoin"
       /\ Len(f.historical) = MockDays + 1
       /\ f.historical[1] # f.historical[2]

MM == marketMetrics

\* C12 (as claimed): for a series of at least 5 values no ratio is computed
\* with a zero denominator: not the rsi ratio, not the day, week and month
\* changes and the per-step returns of the market metrics, and not the
\* percent change of the trend rule.
C12_NoZeroDenominator ==
  /\ (TI.defined /\ TI.from = "historical" /\ Len(TI.feed.historical) >= 5) =>
       /\ AvgLoss(Values(TI.feed.historical)) # 0
       /\ PercentChangeDivides(Values(TI.feed.historical)) =>
            Values(TI.feed.historical)[1] # 0
  /\ (MM.defined /\ MM.from = "historical" /\ Len(MM.feed.historical) >= 5) =>
       /\ MM.value.zeroDenominators = {}
       /\ MM.value.dayChange.kind = "number"
       /\ MM.value.weekChange.kind = "number"
       /\ MM.value.monthChange.kind = "number"

\* The population variance of a set of model predictions about their mean.
VarianceOf(vals) ==
  LET mean == RoundDiv(SumOver(vals, DOMAIN vals), Cardinality(DOMAIN vals))
      sq == [m \in DOMAIN vals |-> (vals[m] - mean) * (vals[m] - mean)]
  IN  SumOver(sq, DOMAIN vals) \div Cardinality(DOMAIN vals)

\* The widths of the 50%, 70% and 90% intervals.
Widths(ci) == <<ci.ci50[2] - ci.ci50[1], ci.ci70[2] - ci.ci70[1], ci.ci90[2] - ci.ci90[1]>>

\* The variances the model predictions can have beside a predicted price.
VariancesFor(pp) ==
  { VarianceOf(ModelPredictions(pp.current_price, TrendMultiplier(c[1], Draw(c[2], 1)), c[2])) :
      c \in {d \in {"up", "down", "stable"} \X RandomStreams :
               PredictedPrice(pp.current_price, TrendMultiplier(d[1], Draw(d[2], 1)))
                 = pp.predicted_price} }

\* C13 (as claimed): between two results with the same predicted price, a
\* larger variance of the model predictions never gives a narrower interval
\* at any level, and the intervals are not one constant: the predictions with
\* the largest variance get other intervals than those with the smallest.
C13_IntervalsFromVariance ==
  [][(HasPricePrediction /\ HasPricePrediction'
        /\ PP.predicted_price = PP'.predicted_price /\ PP.current_price = PP'.current_price) =>
       LET v == VarianceOf(PP.model_predictions)
           w == VarianceOf(PP'.model_predictions)
       IN  /\ v < w => \A i \in 1..3 :
                         Widths(PP.confidence_intervals)[i] <= Widths(PP'.confidence_intervals)[i]
           /\ (v < w /\ \A x \in VariancesFor(PP) : v <= x /\ x <= w) =>
                PP.confidence_intervals # PP'.confidence_intervals]_vars

\* C14 (as claimed): with auto-refresh off and no fetch in flight, a feed
\* fetch begins only on Refresh Now, on the selection of a feed or on turning
\* auto-refresh back on.
C14_NoFetchWhileOff ==
  [][(/\ ~dataFeedDisplay.autoRefresh
      /\ InFlight = 0
      /\ InFlight' > 0)
     => displayEvents'.last \in {"refresh", "view", "toggle"}]_vars

\* C15 (as claimed): once the effect has run, at most one refresh timer is
\* active; with auto-refresh on its period is refreshInterval, and with
\* auto-refresh off there is none.
C15_OneTimer ==
  ~effect.pending =>
    /\ Cardinality(timers) <= 1
    /\ dataFeedDisplay.autoRefresh =>
         \A t \in timers : t.period = dataFeedDisplay.refreshInterval
    /\ ~dataFeedDisplay.autoRefresh => timers = {}

\* C17 (as claimed): once a feed has been selected with View, the selected
\* feed is that one, whatever fetches complete.
C17_SelectionKept ==
  displayEvents.viewed # NoSelection =>
    dataFeedDisplay.selectedFeed = displayEvents.viewed

\* C16 (as claimed): after mount, unless the user acts or a refresh timer
\* fires, the component comes to rest: from some point on no fetch is in
\* flight and no effect run is pending.
C16_Quiescent ==
  \/ <>(displayEvents.last \notin {"mount", "complete"})
  \/ <>[](InFlight = 0 /\ ~effect.pending)

\* C18: model1 and model2 always differ, and a call of either handler with
\* the model chosen in the other menu leaves both unchanged.
C18_ModelsDiffer ==
  /\ [](model1 # model2)
  /\ [][\A value \in AVAILABLE_MODELS :
          (\/ handleModel1Change(value) /\ value = model2
           \/ handleModel2Change(value) /\ value = model1)
          => (model1' = model1 /\ model2' = model2)]_vars

\* Both menus were changed and a selection was then rejected.
C18_Witness ==
  /\ model1 # "regression"
  /\ model2 # "confidence"
  /\ errorMessage.shown
  /\ errorMessage.raisedAt = now

\* C19 (as claimed): the message is cleared no sooner than 3 seconds after
\* the latest rejection, the one that raised the message on display.
C19_MessageStaysThreeSeconds ==
  [][(errorMessage.shown /\ ~errorMessage'.shown)
     => now >= errorMessage.raisedAt + ErrorMessageSeconds]_vars

\* C20: a submission of a non-blank question sets isPredictionLoading, which
\* is reset when the processing completes or throws; a throw leaves
\* predictionData unchanged and puts the error text in analysisStatus.
C20_LoadingSetAndReset ==
  /\ [][Len(inflight') > Len(inflight)
        => (inflight'[Len(inflight')].text # "" /\ isPredictionLoading')]_vars
  /\ [][(\E i \in 1..Len(inflight) : \E error \in ThrownValues : SubmitThrows(i, error))
        => /\ predictionData' = predictionData
           /\ ~isPredictionLoading'
           /\ analysisStatus' \in {"Error: Failed to fetch", "Error: ",
                                   "Error: Unknown error"}]_vars
  /\ (isPredictionLoading ~> ~isPredictionLoading)

\* A stored result survived a later submission that threw.
C20_Witness ==
  /\ predictionData.defined
  /\ analysisStatus = "Error: Unknown error"
  /\ ~isPredictionLoading

\* C21 (as claimed): isPredictionLoading is true whenever a
\* handlePredictionSubmit call is in progress.
C21_LoadingWhileInProgress ==
  inflight # <<>> => isPredictionLoading

\* C22 (as claimed): once overlapping calls have all completed, the stored
\* result is the one for the question submitted last.
C22_LastQuestionWins ==
  (inflight = <<>> /\ overlapped.last # "" /\ ~overlapped.thrown)
    => predictionData.question = overlapped.last

\* C23 (as claimed): once no request is in flight, the indicators and the
\* metrics on display are the ones computed for the selected feed.
C23_AnalyticsOfSelectedFeed ==
  (selectedFeed.defined /\ loads = {})
    => /\ technicalIndicators.defined /\ technicalIndicators.feed = selectedFeed
       /\ marketMetrics.defined /\ marketMetrics.feed = selectedFeed

\* C24 (as claimed): when the prop carries consensusData and no request is
\* in flight, the consensus data on display is the prop's.
C24_ShowsPropConsensusData ==
  LET c == consensusAnalytics IN
  (c.predictionData.consensusData # NoConsensusData /\ c.requests = <<>>)
    => (c.consensusData = c.predictionData.consensusData /\ ~c.loading)

\* The characters words are written with: letters and digits.
Letters == (WordChars \ {"_"}) \cup {"ñ", "Ñ"}
IsLetterAt(query, k) == k \in 1..Len(query) /\ query[k] \in Letters

\* asset stands in query as a whole word: no letter or digit before or
\* after it.
StandsAsWord(query, asset) ==
  \E p \in 1..Len(query) :
    /\ OccursAt(query, asset, p)
    /\ ~IsLetterAt(query, p - 1)
    /\ ~IsLetterAt(query, p + Len(asset))

\* C27 (as claimed): the list extractAssetsFromQuery returns has no
\* duplicates, holds canonical names only, and each name is there for an
\* entry of commonAssets the query holds, as a whole word when the entry has
\* at most 4 characters.
C27_ExtractedAssets ==
  LET assets == parsed.assets
      normalizedQuery == toLowerCaseChars(parsed.query)
  IN  /\ \A i, j \in 1..Len(assets) : i # j => assets[i] # assets[j]
      /\ \A i \in 1..Len(assets) : assets[i] \in CanonicalNames
      /\ \A i \in 1..Len(assets) :
           \E k \in 1..Len(commonAssets) :
             /\ mapSymbolToName(commonAssets[k]) = assets[i]
             /\ includes(normalizedQuery, Chars(commonAssets[k]))
             /\ Len(Chars(commonAssets[k])) <= 4
                  => StandsAsWord(normalizedQuery, Chars(commonAssets[k]))

\* C26: after a completed submission with a price question, dataFeeds holds
\* the feed of the primary asset, and current_price is that feed's current
\* value and greater than 0.
C26_PrimaryAssetPrice ==
  (predictionData.defined /\ predictionData.verificationResult.price_prediction.defined)
    => LET identifiedAssets == predictionData.processedQuery.identified_assets
           primaryAsset == IF Len(identifiedAssets) > 0 THEN identifiedAssets[1]
                           ELSE "Bitcoin"
           dataFeeds == predictionData.dataFeeds
           pp == predictionData.verificationResult.price_prediction
       IN  /\ pp.asset = primaryAsset
           /\ \E i \in 1..Len(dataFeeds) :
                /\ dataFeeds[i].feed_id = toLowerCase(primaryAsset)
                /\ pp.current_price = dataFeeds[i].current_value
           /\ pp.current_price > 0

\* A price question about an asset whose name is not its feed's name, with
\* a failed price request: the price is the estimate.
C26_Witness ==
  /\ predictionData.defined
  /\ predictionData.verificationResult.price_prediction.defined
  /\ predictionData.verificationResult.price_prediction.asset = "NEAR Protocol"
  /\ predictionData.verificationResult.price_prediction.current_price
       = EstimatedPrice("NEAR Protocol")
  /\ predictionData.dataFeeds[1].name = "Near protocol"

\* C25 (as claimed): the feeds a submission got from getMarketDataFeeds are
\* one per asset asked for, in the same order, each with the asset's name in
\* lower case for feed_id and a historical series that is not empty.
C25_OneFeedPerAsset ==
  predictionData.defined
    => LET identifiedAssets == predictionData.processedQuery.identified_assets
           assets == IF Len(identifiedAssets) > 0 THEN identifiedAssets
                     ELSE DefaultAssets
           dataFeeds == predictionData.dataFeeds
       IN  /\ Len(dataFeeds) = Len(assets)
           /\ \A i \in 1..Len(assets) :
                /\ dataFeeds[i].feed_id = toLowerCase(assets[i])
                /\ dataFeeds[i].historical # <<>>
====
